---- MODULE Spec2Model ----
(***************************************************************************)
(* State machine of the ilo-toki terminal chat client (src/src/main.rs):   *)
(* the shared AppState behind the RwLock, the key handler ui_events, the   *)
(* event handler receive_events and the command loop of main.              *)
(*                                                                         *)
(* Strings are sequences of UTF-8 bytes (113 is "q", <<195,169>> is one    *)
(* two-byte character), so byte offsets, character offsets and             *)
(* is_char_boundary mean what they mean in the program.                    *)
(***************************************************************************)
EXTENDS Integers, Sequences, FiniteSets, TLC

\* ------------------------------------------------------------------ bounds
\* Longest message buffer explored, in bytes, and longest command buffer.
MaxInputBytes == 4
\* Longest draft typed around an edit, in bytes.
MaxDraftBytes == 2
MaxCommandBytes == 6
\* Guild, channel and message ids run from 1 to these.
MaxGuildId == 2
MaxChannelId == 1
MaxMsgId == 3
\* Longest message list per channel explored.
MaxMsgs == 3
\* Longest guild list and channel list explored.
MaxGuilds == 2
MaxChannels == 2
\* Capacity of the intent queue explored (the program's mpsc::channel(128)).
QueueCap == 1
\* Requests held by the negotiator's queue (the program's mpsc::channel(128)),
\* and characters typed into one form field.
MaxAuthQueue == 1
MaxFieldLen == 1
\* usize is modelled UsizeBits wide: 0 - 1 wraps to 2^UsizeBits - 1.
UsizeBits == 4

UsizeMod == 2 ^ UsizeBits
\* Option::None of an Option<usize> / Option<u64> (indices are >= 0, ids >= 1).
None == -1

\* ----------------------------------------------------------------- strings
\* The UTF-8 encodings of the characters typed or received: q, e-acute,
\* the euro sign, an emoji (1, 2, 3 and 4 bytes).
Chr_q == <<113>>
Chr_2 == <<195, 169>>
Chr_3 == <<226, 130, 172>>
Chr_4 == <<240, 159, 152, 128>>
WideChars == {Chr_q, Chr_2, Chr_3, Chr_4}

IsContinuation(b) == b \in 128..191

\* str::is_char_boundary
is_char_boundary(s, i) ==
    \/ i = 0
    \/ i = Len(s)
    \/ (i > 0 /\ i < Len(s) /\ ~IsContinuation(s[i + 1]))

\* str::chars().count()
NumChars(s) == Cardinality({i \in 1..Len(s) : ~IsContinuation(s[i])})

\* The loop `let mut i = 1; while !s.is_char_boundary(pos - i) { i += 1 }`.
StepLeft(s, pos) ==
    CHOOSE i \in 1..pos :
        /\ is_char_boundary(s, pos - i)
        /\ \A j \in 1..(i - 1) : ~is_char_boundary(s, pos - j)

\* The loop `let mut i = 1; while !s.is_char_boundary(pos + i) { i += 1 }`.
StepRight(s, pos) ==
    CHOOSE i \in 1..(Len(s) - pos) :
        /\ is_char_boundary(s, pos + i)
        /\ \A j \in 1..(i - 1) : ~is_char_boundary(s, pos + j)

\* String::insert(pos, c): c is the character's encoding.
StrInsert(s, pos, c) == SubSeq(s, 1, pos) \o c \o SubSeq(s, pos + 1, Len(s))

\* String::remove(pos): removes the character that starts at byte pos.
StrRemove(s, pos) ==
    SubSeq(s, 1, pos) \o SubSeq(s, pos + 1 + StepRight(s, pos), Len(s))

\* A buffer: the text with its byte and character cursor, and whether the
\* operation panicked (usize underflow with overflow checks on, or a String
\* method called off a character boundary).
Buf(s, bp, cp) == [text |-> s, byte_pos |-> bp, char_pos |-> cp, panic |-> FALSE]
BufPanic(s, bp, cp) == [text |-> s, byte_pos |-> bp, char_pos |-> cp, panic |-> TRUE]

\* usize arithmetic without overflow checks: a - b and a + b wrap.
WrapSub(a, b) == (a - b + UsizeMod) % UsizeMod
WrapAdd(a, b) == (a + b) % UsizeMod

MoveLeftMutant(s, bp, cp, checks) ==
    IF bp > 0 THEN Buf(s, bp - 1, cp - 1) ELSE Buf(s, bp, cp)

\* Move left (h / Left).
MoveLeft(s, bp, cp, checks) ==
    IF bp > 0
    THEN IF cp = 0 /\ checks
         THEN BufPanic(s, bp - StepLeft(s, bp), cp)
         ELSE Buf(s, bp - StepLeft(s, bp), WrapSub(cp, 1))
    ELSE Buf(s, bp, cp)

\* Move right (l / Right).
MoveRight(s, bp, cp) ==
    IF bp < Len(s)
    THEN Buf(s, bp + StepRight(s, bp), WrapAdd(cp, 1))
    ELSE Buf(s, bp, cp)

\* Backspace with the cursor after at least one byte.
Backspace(s, bp, cp, checks) ==
    LET nb == bp - StepLeft(s, bp) IN
    IF cp = 0 /\ checks
    THEN BufPanic(s, nb, cp)
    ELSE Buf(StrRemove(s, nb), nb, WrapSub(cp, 1))

\* Insert character.
InsertChar(s, bp, cp, c) ==
    IF is_char_boundary(s, bp)
    THEN Buf(StrInsert(s, bp, c), bp + Len(c), WrapAdd(cp, 1))
    ELSE BufPanic(s, bp, cp)

\* ------------------------------------------------------------------- state
VARIABLES
    mode,               \* AppState.mode
    users,              \* AppState.users: user id -> Member
    guilds_map,         \* AppState.guilds_map: guild id -> Guild
    guilds_list,        \* AppState.guilds_list
    guilds_select,      \* AppState.guilds_select
    current_guild,      \* AppState.current_guild
    current_user,       \* AppState.current_user
    editing,            \* AppState.editing
    input, input_byte_pos, input_char_pos,
    old_input, old_input_byte_pos, old_input_char_pos,
    command, command_byte_pos, command_char_pos,
    RUNNING,            \* the process-wide running flag
    queue,              \* the mpsc channel (tx, rx) of ClientEvents
    main,               \* position of main: guild load, command loop, a call in flight
    ui_wait,            \* ui_events suspended in tx.send on a full queue
    ev_task,            \* the event handler: idle, suspended in tx.send, or stopped
    subscribed,         \* guild ids among the event sources given to event_loop
    panicked,           \* tasks ended by a panic
    overflow_checks,    \* build profile: arithmetic overflow panics (TRUE) or wraps
    auth_state,         \* AuthState of auth(): can_go_back and the AuthInput
    auth_queue,         \* the mpsc channel (tx, rx) of AuthStepResponses
    auth_task,          \* position of auth() and of main after it
    auth_keys,          \* auth_ui_events: running, or stopped by `q`
    raw_mode,           \* the terminal is in raw mode
    tui_task,           \* tui: its position, the read guard of the frame
    last                \* history: the handler or step that ran last, with its input

inputVars == <<input, input_byte_pos, input_char_pos>>
oldInputVars == <<old_input, old_input_byte_pos, old_input_char_pos>>
commandVars == <<command, command_byte_pos, command_char_pos>>
guildVars == <<guilds_map, guilds_list, guilds_select, current_guild>>
storeVars == <<users, guildVars, current_user>>
taskVars == <<main, ev_task, subscribed>>
authVars == <<auth_state, auth_queue, auth_task, auth_keys>>
termVars == <<raw_mode, tui_task>>
vars == <<mode, storeVars, editing, inputVars, oldInputVars, commandVars, RUNNING,
          queue, taskVars, ui_wait, panicked, overflow_checks, authVars, termVars, last>>

\* No suspended send.
NoWait == [waiting |-> FALSE]

\* Option<AuthStep>::None
NoStep == [kind |-> "None"]

\* AppState::default(), the queue empty, main before the initial guild load;
\* AuthState::default() and auth() about to ask for the first step.
Init ==
    /\ auth_state = [can_go_back |-> FALSE, input |-> [kind |-> "Initial"]]
    /\ auth_queue = <<>>
    /\ auth_task = [pc |-> "begin", step |-> NoStep, session |-> FALSE]
    /\ auth_keys = "running"
    /\ raw_mode = FALSE
    /\ tui_task = [pc |-> "start"]
    /\ mode = "TextNormal"
    /\ users = <<>>
    /\ guilds_map = <<>>
    /\ guilds_list = <<>>
    /\ guilds_select = None
    /\ current_guild = None
    /\ current_user = 0
    /\ editing = FALSE
    /\ input = <<>> /\ input_byte_pos = 0 /\ input_char_pos = 0
    /\ old_input = <<>> /\ old_input_byte_pos = 0 /\ old_input_char_pos = 0
    /\ command = <<>> /\ command_byte_pos = 0 /\ command_char_pos = 0
    /\ RUNNING = TRUE
    /\ queue = <<>>
    /\ main = [pc |-> "load"]
    /\ ui_wait = NoWait
    /\ ev_task = [pc |-> "idle"]
    /\ subscribed = {}
    /\ panicked = {}
    /\ overflow_checks \in BOOLEAN
    /\ last = <<"start">>

\* ------------------------------------------------------------ key handler
\* main has not left through process::exit or a panic of its own.
ProcessAlive == main.pc # "exited" /\ "main" \notin panicked

\* Whether main holds the state lock across a call in flight.
MainHoldsLock == main.pc \in {"channels_call", "remote_call"}

\* ui_events can take the next key and the write lock.
UiReady ==
    /\ ProcessAlive
    /\ "ui" \notin panicked
    /\ ~ui_wait.waiting
    /\ ~MainHoldsLock

\* The message buffer after a buffer operation, or the task's panic.
SetInput(b) ==
    IF b.panic
    THEN /\ panicked' = panicked \cup {"ui"}
         /\ UNCHANGED inputVars
    ELSE /\ input' = b.text
         /\ input_byte_pos' = b.byte_pos
         /\ input_char_pos' = b.char_pos
         /\ UNCHANGED panicked

SetCommand(b) ==
    IF b.panic
    THEN /\ panicked' = panicked \cup {"ui"}
         /\ UNCHANGED commandVars
    ELSE /\ command' = b.text
         /\ command_byte_pos' = b.byte_pos
         /\ command_char_pos' = b.char_pos
         /\ UNCHANGED panicked

\* TextNormal: i
NormalI ==
    /\ UiReady /\ mode = "TextNormal"
    /\ mode' = "TextInsert"
    /\ UNCHANGED <<storeVars, editing, inputVars, oldInputVars, commandVars, RUNNING,
                   queue, taskVars, ui_wait, panicked, overflow_checks>>

\* TextNormal: h / Left
NormalLeft ==
    /\ UiReady /\ mode = "TextNormal"
    /\ SetInput(MoveLeft(input, input_byte_pos, input_char_pos, overflow_checks))
    /\ UNCHANGED <<mode, storeVars, editing, oldInputVars, commandVars, RUNNING,
                   queue, taskVars, ui_wait, overflow_checks>>

\* TextNormal: l / Right
NormalRight ==
    /\ UiReady /\ mode = "TextNormal"
    /\ SetInput(MoveRight(input, input_byte_pos, input_char_pos))
    /\ UNCHANGED <<mode, storeVars, editing, oldInputVars, commandVars, RUNNING,
                   queue, taskVars, ui_wait, overflow_checks>>

\* TextNormal: ':' enters the command prompt and clears it.
NormalColon ==
    /\ UiReady /\ mode = "TextNormal"
    /\ mode' = "Command"
    /\ command' = <<>> /\ command_byte_pos' = 0 /\ command_char_pos' = 0
    /\ UNCHANGED <<storeVars, editing, inputVars, oldInputVars, RUNNING,
                   queue, taskVars, ui_wait, panicked, overflow_checks>>

\* TextInsert: Esc
InsertEsc ==
    /\ UiReady /\ mode = "TextInsert"
    /\ mode' = "TextNormal"
    /\ UNCHANGED <<storeVars, editing, inputVars, oldInputVars, commandVars, RUNNING,
                   queue, taskVars, ui_wait, panicked, overflow_checks>>

\* TextInsert: Left
InsertLeft ==
    /\ UiReady /\ mode = "TextInsert"
    /\ SetInput(MoveLeft(input, input_byte_pos, input_char_pos, overflow_checks))
    /\ UNCHANGED <<mode, storeVars, editing, oldInputVars, commandVars, RUNNING,
                   queue, taskVars, ui_wait, overflow_checks>>

\* TextInsert: Right
InsertRight ==
    /\ UiReady /\ mode = "TextInsert"
    /\ SetInput(MoveRight(input, input_byte_pos, input_char_pos))
    /\ UNCHANGED <<mode, storeVars, editing, oldInputVars, commandVars, RUNNING,
                   queue, taskVars, ui_wait, overflow_checks>>

\* TextInsert: Backspace
InsertBackspace ==
    /\ UiReady /\ mode = "TextInsert"
    /\ IF input_byte_pos > 0
       THEN SetInput(Backspace(input, input_byte_pos, input_char_pos, overflow_checks))
       ELSE UNCHANGED <<inputVars, panicked>>
    /\ UNCHANGED <<mode, storeVars, editing, oldInputVars, commandVars, RUNNING,
                   queue, taskVars, ui_wait, overflow_checks>>

\* TextInsert: a character key c (its UTF-8 encoding)
InsertKey(c) ==
    /\ UiReady /\ mode = "TextInsert"
    /\ Len(input) + Len(c) <= MaxInputBytes
    /\ SetInput(InsertChar(input, input_byte_pos, input_char_pos, c))
    /\ UNCHANGED <<mode, storeVars, editing, oldInputVars, commandVars, RUNNING,
                   queue, taskVars, ui_wait, overflow_checks>>

\* Command: Esc
CommandEsc ==
    /\ UiReady /\ mode = "Command"
    /\ mode' = "TextNormal"
    /\ UNCHANGED <<storeVars, editing, inputVars, oldInputVars, commandVars, RUNNING,
                   queue, taskVars, ui_wait, panicked, overflow_checks>>

\* Command: Left
CommandLeft ==
    /\ UiReady /\ mode = "Command"
    /\ SetCommand(MoveLeft(command, command_byte_pos, command_char_pos, overflow_checks))
    /\ UNCHANGED <<mode, storeVars, editing, inputVars, oldInputVars, RUNNING,
                   queue, taskVars, ui_wait, overflow_checks>>

\* Command: Right
CommandRight ==
    /\ UiReady /\ mode = "Command"
    /\ SetCommand(MoveRight(command, command_byte_pos, command_char_pos))
    /\ UNCHANGED <<mode, storeVars, editing, inputVars, oldInputVars, RUNNING,
                   queue, taskVars, ui_wait, overflow_checks>>

\* Command: Backspace; on an empty prompt it returns to TextNormal.
CommandBackspace ==
    /\ UiReady /\ mode = "Command"
    /\ IF command_byte_pos > 0
       THEN /\ SetCommand(Backspace(command, command_byte_pos, command_char_pos,
                                    overflow_checks))
            /\ UNCHANGED mode
       ELSE /\ mode' = IF command = <<>> THEN "TextNormal" ELSE mode
            /\ UNCHANGED <<commandVars, panicked>>
    /\ UNCHANGED <<storeVars, editing, inputVars, oldInputVars, RUNNING,
                   queue, taskVars, ui_wait, overflow_checks>>

\* Command: a character key c
CommandKey(c) ==
    /\ UiReady /\ mode = "Command"
    /\ Len(command) + Len(c) <= MaxCommandBytes
    /\ SetCommand(InsertChar(command, command_byte_pos, command_char_pos, c))
    /\ UNCHANGED <<mode, storeVars, editing, inputVars, oldInputVars, RUNNING,
                   queue, taskVars, ui_wait, overflow_checks>>

\* ------------------------------------------------------------ entity store
\* The account's user id, and another user's.
Me == 1
Other == 2

\* HashMap::insert, HashMap::remove
MapPut(m, k, v) == [x \in (DOMAIN m) \cup {k} |-> IF x = k THEN v ELSE m[x]]
MapDel(m, k) == [x \in (DOMAIN m) \ {k} |-> m[x]]

\* Vec::remove(i), Vec::insert(i, x) and Vec::get(i), i counted from 0
ListRemove(l, i) == SubSeq(l, 1, i) \o SubSeq(l, i + 2, Len(l))
ListInsert(l, i, x) == SubSeq(l, 1, i) \o <<x>> \o SubSeq(l, i + 1, Len(l))
ListGet(l, i) == IF i >= 0 /\ i < Len(l) THEN l[i + 1] ELSE None

\* `for (i, &id2) in list.iter().enumerate() { if id2 == id { index = Some(i); break } }`
FirstIndex(l, id) ==
    IF \E i \in 1..Len(l) : l[i] = id
    THEN (CHOOSE i \in 1..Len(l) : l[i] = id /\ \A j \in 1..(i - 1) : l[j] # id) - 1
    ELSE None

\* struct Message as handle_message builds it from the RawMessage m (text
\* content only).
Message(id, m) ==
    [id |-> id, author_id |-> m.author_id, override_username |-> m.override,
     content |-> m.text, timestamp |-> m.created_at, edited_timestamp |-> m.edited_at]

\* struct Channel as GetChannels creates it
NewChannel(guild_id) ==
    [guild_id |-> guild_id, scroll_selected |-> 0,
     messages_map |-> <<>>, messages_list |-> <<>>]

\* struct Guild as the guild load and JoinGuild create it
NewGuild ==
    [channels_list |-> <<>>, channels_select |-> None,
     channels_map |-> <<>>, current_channel |-> None]

\* AppState::current_guild / AppState::current_channel: whether they are Some
HasCurrentGuild == current_guild # None /\ current_guild \in DOMAIN guilds_map
HasCurrentChannel ==
    /\ HasCurrentGuild
    /\ guilds_map[current_guild].current_channel # None
    /\ guilds_map[current_guild].current_channel
           \in DOMAIN guilds_map[current_guild].channels_map
CurrentChannelId == guilds_map[current_guild].current_channel
CurrentChannel == guilds_map[current_guild].channels_map[CurrentChannelId]

\* AppState::get_channel_mut: whether it is Some
HasChannel(gm, guild_id, channel_id) ==
    guild_id \in DOMAIN gm /\ channel_id \in DOMAIN gm[guild_id].channels_map

SetChannel(gm, guild_id, channel_id, ch) ==
    [gm EXCEPT ![guild_id].channels_map[channel_id] = ch]

\* The list position handle_message writes to.
PlaceMutant(l, index, message_id) == <<message_id>> \o l

Place(l, index, message_id) ==
    IF index >= Len(l) THEN Append(l, message_id) ELSE ListInsert(l, index, message_id)

\* handle_message: the store after it. m is the RawMessage: its author, whether
\* its content is a text message, and the text.
handle_message(gm, m, guild_id, channel_id, message_id, index) ==
    IF HasChannel(gm, guild_id, channel_id) /\ m.kind = "text"
    THEN LET ch == gm[guild_id].channels_map[channel_id] IN
         SetChannel(gm, guild_id, channel_id,
            [ch EXCEPT
                !.messages_list = Place(@, index, message_id),
                !.messages_map = MapPut(@, message_id, Message(message_id, m))])
    ELSE gm

\* A handle_message that asks for every author.
UnknownAuthorMutant(us, m) == TRUE

\* handle_message's return value is Some(author_id).
UnknownAuthor(us, m) == m.author_id \notin DOMAIN us

\* handle_user
handle_user(us, user_id, profile) == MapPut(us, user_id, profile)

\* The profile the server holds for a user.
ProfileOf(user_id) == [name |-> user_id, is_bot |-> FALSE]

\* --------------------------------------------------------- event handler
\* The handler of receive_events can take the next event and the write lock.
EvReady ==
    /\ ProcessAlive
    /\ main.pc # "load"
    /\ "events" \notin panicked
    /\ ev_task.pc = "idle"
    /\ ~MainHoldsLock
    /\ ~ui_wait.waiting

\* The handler finds RUNNING false and returns Ok(true): the event loop ends.
EvStop ==
    /\ EvReady /\ ~RUNNING
    /\ ev_task' = [pc |-> "stopped"]
    /\ UNCHANGED <<mode, storeVars, editing, inputVars, oldInputVars, commandVars,
                   RUNNING, queue, main, subscribed, ui_wait, panicked, overflow_checks>>

\* GuildRemovedFromList(guild_id)
EvGuildRemoved(guild_id) ==
    /\ EvReady /\ RUNNING
    /\ LET index == FirstIndex(guilds_list, guild_id) IN
       /\ guilds_map' = MapDel(guilds_map, guild_id)
       /\ current_guild' = IF current_guild = guild_id THEN None ELSE current_guild
       /\ guilds_list' = IF index # None THEN ListRemove(guilds_list, index)
                         ELSE guilds_list
       /\ guilds_select' = IF index # None /\ guilds_select = index THEN None
                           ELSE guilds_select
    /\ UNCHANGED <<mode, users, current_user, editing, inputVars, oldInputVars,
                   commandVars, RUNNING, queue, taskVars, ui_wait, panicked,
                   overflow_checks>>

\* SentMessage: the message is stored, then GetUser is sent for an unknown
\* author (the send suspends the handler while the queue is full).
EvSentMessage(guild_id, channel_id, message_id, m) ==
    /\ EvReady /\ RUNNING
    /\ guild_id \in subscribed
    /\ HasChannel(guilds_map, guild_id, channel_id) =>
           Len(guilds_map[guild_id].channels_map[channel_id].messages_list) < MaxMsgs
    /\ guilds_map' = handle_message(guilds_map, m, guild_id, channel_id, message_id,
                                    UsizeMod - 1)
    /\ IF ~UnknownAuthor(users, m)
       THEN UNCHANGED <<queue, ev_task>>
       ELSE IF Len(queue) < QueueCap
       THEN /\ queue' = Append(queue, [kind |-> "GetUser", user |-> m.author_id])
            /\ UNCHANGED ev_task
       ELSE /\ ev_task' = [pc |-> "send", user |-> m.author_id]
            /\ UNCHANGED queue
    /\ UNCHANGED <<mode, users, guilds_list, guilds_select, current_guild, current_user,
                   editing, inputVars, oldInputVars, commandVars, RUNNING, main,
                   subscribed, ui_wait, panicked, overflow_checks>>

\* The suspended send of GetUser completes.
EvResume ==
    /\ ProcessAlive /\ "events" \notin panicked
    /\ ev_task.pc = "send"
    /\ Len(queue) < QueueCap
    /\ queue' = Append(queue, [kind |-> "GetUser", user |-> ev_task.user])
    /\ ev_task' = [pc |-> "idle"]
    /\ UNCHANGED <<mode, storeVars, editing, inputVars, oldInputVars, commandVars,
                   RUNNING, main, subscribed, ui_wait, panicked, overflow_checks>>

DeletedMessageMutant(ch, id, checks) ==
    [ch |-> [ch EXCEPT !.messages_map = MapDel(@, id),
                       !.messages_list = SelectSeq(@, LAMBDA x : x # id)],
     panic |-> FALSE]

\* DeletedMessage applied to a tracked channel: the channel after it, and
\* whether `messages_list.len() - 1` underflowed with overflow checks on (the
\* map and the list are already changed when it does).
DeletedMessage(ch, id, checks) ==
    LET index == FirstIndex(ch.messages_list, id)
        map == MapDel(ch.messages_map, id)
        list == ListRemove(ch.messages_list, index)
    IN  IF index = None
        THEN [ch |-> [ch EXCEPT !.messages_map = map], panic |-> FALSE]
        ELSE IF ch.scroll_selected >= Len(list)
        THEN IF Len(list) = 0 /\ checks
             THEN [ch |-> [ch EXCEPT !.messages_map = map, !.messages_list = list],
                   panic |-> TRUE]
             ELSE [ch |-> [ch EXCEPT !.messages_map = map, !.messages_list = list,
                                     !.scroll_selected = WrapSub(Len(list), 1)],
                   panic |-> FALSE]
        ELSE [ch |-> [ch EXCEPT !.messages_map = map, !.messages_list = list],
              panic |-> FALSE]

\* DeletedMessage(guild_id, channel_id, message_id)
EvDeletedMessage(guild_id, channel_id, message_id) ==
    /\ EvReady /\ RUNNING
    /\ guild_id \in subscribed
    /\ IF HasChannel(guilds_map, guild_id, channel_id)
       THEN LET r == DeletedMessage(guilds_map[guild_id].channels_map[channel_id],
                                    message_id, overflow_checks) IN
            /\ guilds_map' = SetChannel(guilds_map, guild_id, channel_id, r.ch)
            /\ panicked' = IF r.panic THEN panicked \cup {"events"} ELSE panicked
       ELSE UNCHANGED <<guilds_map, panicked>>
    /\ UNCHANGED <<mode, users, guilds_list, guilds_select, current_guild, current_user,
                   editing, inputVars, oldInputVars, commandVars, RUNNING, queue,
                   taskVars, ui_wait, overflow_checks>>

\* An EditedMessage that also overwrites the creation time.
EditedMessageMutant(ch, id, new_content, edited_at) ==
    IF new_content # <<>> /\ id \in DOMAIN ch.messages_map
    THEN [ch EXCEPT !.messages_map[id].content = new_content[1],
                    !.messages_map[id].timestamp = edited_at,
                    !.messages_map[id].edited_timestamp = <<edited_at>>]
    ELSE ch

\* EditedMessage applied to a tracked channel: with new content and a map
\* entry for the id, the entry's text and edit time are overwritten (every
\* stored message is MessageContent::Text).
EditedMessage(ch, id, new_content, edited_at) ==
    IF new_content # <<>> /\ id \in DOMAIN ch.messages_map
    THEN [ch EXCEPT !.messages_map[id].content = new_content[1],
                    !.messages_map[id].edited_timestamp = <<edited_at>>]
    ELSE ch

\* EditedMessage(guild_id, channel_id, message_id, new_content, edited_at);
\* new_content is the Option of the new text.
EvEditedMessage(guild_id, channel_id, message_id, new_content, edited_at) ==
    /\ EvReady /\ RUNNING
    /\ guild_id \in subscribed
    /\ guilds_map' =
          IF HasChannel(guilds_map, guild_id, channel_id)
          THEN SetChannel(guilds_map, guild_id, channel_id,
                          EditedMessage(guilds_map[guild_id].channels_map[channel_id],
                                        message_id, new_content, edited_at))
          ELSE guilds_map
    /\ UNCHANGED <<mode, users, guilds_list, guilds_select, current_guild, current_user,
                   editing, inputVars, oldInputVars, commandVars, RUNNING, queue,
                   taskVars, ui_wait, panicked, overflow_checks>>

\* ------------------------------------------------------------ command loop
\* main can take the state lock for reading / for writing.
MainCanRead == ~(ui_wait.waiting /\ ui_wait.lock = "write")
MainCanWrite == ~ui_wait.waiting

Range(l) == {l[i] : i \in 1..Len(l)}

\* `for GuildListEntry in guilds.guilds { push; insert }`, also JoinGuild's push
\* and insert of one guild: no check for a guild already held.
AddGuilds(gm, gs) ==
    [g \in (DOMAIN gm) \cup Range(gs) |-> IF g \in Range(gs) THEN NewGuild ELSE gm[g]]

\* The initial guild load (current_user, the event sources, the guild list);
\* gs is the guild list the server answers with.
LoadGuilds(gs) ==
    /\ main.pc = "load" /\ "main" \notin panicked
    /\ MainCanWrite
    /\ current_user' = Me
    /\ subscribed' = Range(gs)
    /\ guilds_list' = guilds_list \o gs
    /\ guilds_map' = AddGuilds(guilds_map, gs)
    /\ main' = [pc |-> "recv"]
    /\ UNCHANGED <<mode, users, guilds_select, current_guild, editing, inputVars,
                   oldInputVars, commandVars, RUNNING, queue, ev_task, ui_wait,
                   panicked, overflow_checks>>

\* rx.recv() returns the next ClientEvent.
MainRecv ==
    /\ main.pc = "recv" /\ "main" \notin panicked
    /\ queue # <<>>
    /\ main' = [pc |-> "dispatch", ev |-> Head(queue)]
    /\ queue' = Tail(queue)
    /\ UNCHANGED <<mode, storeVars, editing, inputVars, oldInputVars, commandVars,
                   RUNNING, ev_task, subscribed, ui_wait, panicked, overflow_checks>>

Dispatching(kind) ==
    main.pc = "dispatch" /\ "main" \notin panicked /\ main.ev.kind = kind

MainOnly(next) ==
    /\ main' = next
    /\ UNCHANGED <<mode, storeVars, editing, inputVars, oldInputVars, commandVars,
                   RUNNING, queue, ev_task, subscribed, ui_wait, panicked,
                   overflow_checks>>

\* ClientEvent::Quit: break, the offline status call, clear(), process::exit.
MainQuit ==
    /\ Dispatching("Quit")
    /\ MainOnly([pc |-> "exited"])

\* ClientEvent::Send / Delete / Edit: the request goes to the guild and channel
\* that are current now; the read lock is held until the call returns.
MainRemote ==
    /\ main.pc = "dispatch" /\ "main" \notin panicked
    /\ main.ev.kind \in {"Send", "Delete", "Edit"}
    /\ MainCanRead
    /\ IF HasCurrentGuild /\ guilds_map[current_guild].current_channel # None
       THEN MainOnly([pc |-> "remote_call", ev |-> main.ev, guild_id |-> current_guild,
                      channel_id |-> guilds_map[current_guild].current_channel])
       ELSE MainOnly([pc |-> "recv"])

MainRemoteReturn ==
    /\ main.pc = "remote_call" /\ "main" \notin panicked
    /\ MainOnly([pc |-> "recv"])

\* ClientEvent::GetMoreMessages: the request is built for the current channel
\* under the read lock, which is released before the call.
MainGetMore ==
    /\ Dispatching("GetMoreMessages")
    /\ MainCanRead
    /\ IF HasCurrentChannel
       THEN MainOnly([pc |-> "more_call", guild_id |-> CurrentChannel.guild_id,
                      channel_id |-> CurrentChannelId,
                      message_id |-> main.ev.message_id])
       ELSE MainOnly([pc |-> "recv"])

\* `for message in messages.into_iter().skip(1)`: handle_message at index 0,
\* then the profile of an unknown author is fetched and stored (found: whether
\* the server answers with a profile).
\* Iterator::skip(1)
Skip1(l) == IF l = <<>> THEN l ELSE Tail(l)

RECURSIVE SavePage(_, _, _, _, _)
SavePage(st, page, guild_id, channel_id, found) ==
    IF page = <<>> THEN st
    ELSE LET m == Head(page)
             gm == handle_message(st.guilds_map, m, guild_id, channel_id, m.id, 0)
             us == IF UnknownAuthor(st.users, m) /\ found
                   THEN handle_user(st.users, m.author_id, ProfileOf(m.author_id))
                   ELSE st.users
         IN  SavePage([guilds_map |-> gm, users |-> us], Tail(page),
                      guild_id, channel_id, found)

\* The page arrives and is saved, under the write lock, into the channel that
\* is current now.
MainMoreReturn(page, found) ==
    /\ main.pc = "more_call" /\ "main" \notin panicked
    /\ MainCanWrite
    /\ IF HasCurrentChannel
       THEN /\ Len(CurrentChannel.messages_list) + Len(page) <= MaxMsgs + 1
            /\ LET st == SavePage([guilds_map |-> guilds_map, users |-> users],
                                  Skip1(page), CurrentChannel.guild_id,
                                  CurrentChannelId, found) IN
               /\ guilds_map' = st.guilds_map
               /\ users' = st.users
       ELSE UNCHANGED <<guilds_map, users>>
    /\ main' = [pc |-> "recv"]
    /\ UNCHANGED <<mode, guilds_list, guilds_select, current_guild, current_user,
                   editing, inputVars, oldInputVars, commandVars, RUNNING, queue,
                   ev_task, subscribed, ui_wait, panicked, overflow_checks>>

\* ClientEvent::GetChannels: the write lock is taken, then the call is made.
MainGetChannels ==
    /\ Dispatching("GetChannels")
    /\ MainCanWrite
    /\ IF HasCurrentGuild
       THEN MainOnly([pc |-> "channels_call", guild_id |-> current_guild])
       ELSE MainOnly([pc |-> "recv"])

\* `for channel in channels.channels { push; insert }`
AddChannels(guild, guild_id, cs) ==
    [guild EXCEPT
        !.channels_list = @ \o cs,
        !.channels_map = [c \in (DOMAIN @) \cup Range(cs) |->
                             IF c \in Range(cs) THEN NewChannel(guild_id) ELSE @[c]]]

\* The channel list cs arrives and is appended to the guild.
MainChannelsReturn(cs) ==
    /\ main.pc = "channels_call" /\ "main" \notin panicked
    /\ Len(guilds_map[main.guild_id].channels_list) + Len(cs) <= MaxChannels
    /\ guilds_map' = [guilds_map EXCEPT
                         ![main.guild_id] = AddChannels(@, main.guild_id, cs)]
    /\ main' = [pc |-> "recv"]
    /\ UNCHANGED <<mode, users, guilds_list, guilds_select, current_guild, current_user,
                   editing, inputVars, oldInputVars, commandVars, RUNNING, queue,
                   ev_task, subscribed, ui_wait, panicked, overflow_checks>>

\* ClientEvent::GetUser: the profile call, made without the lock.
MainGetUser ==
    /\ Dispatching("GetUser")
    /\ MainOnly([pc |-> "user_call", user |-> main.ev.user])

\* The profile arrives (found) or the server has none.
MainUserReturn(found) ==
    /\ main.pc = "user_call" /\ "main" \notin panicked
    /\ found => MainCanWrite
    /\ users' = IF found THEN handle_user(users, main.user, ProfileOf(main.user))
                ELSE users
    /\ main' = [pc |-> "recv"]
    /\ UNCHANGED <<mode, guildVars, current_user, editing, inputVars, oldInputVars,
                   commandVars, RUNNING, queue, ev_task, subscribed, ui_wait, panicked,
                   overflow_checks>>

\* ClientEvent::LeaveGuild: the call only.
MainLeaveGuild ==
    /\ Dispatching("LeaveGuild")
    /\ MainOnly([pc |-> "recv"])

\* ClientEvent::JoinGuild: the join call and the guild details call, made
\* without the lock.
MainJoinGuild ==
    /\ Dispatching("JoinGuild")
    /\ MainOnly([pc |-> "join_call", invite |-> main.ev.invite])

\* The server answers with the joined guild's id; with its details (found)
\* the guild is pushed and inserted under the write lock.
MainJoinReturn(guild_id, found) ==
    /\ main.pc = "join_call" /\ "main" \notin panicked
    /\ found => MainCanWrite
    /\ found => Len(guilds_list) < MaxGuilds
    /\ guilds_list' = IF found THEN Append(guilds_list, guild_id) ELSE guilds_list
    /\ guilds_map' = IF found THEN AddGuilds(guilds_map, <<guild_id>>) ELSE guilds_map
    /\ main' = [pc |-> "recv"]
    /\ UNCHANGED <<mode, users, guilds_select, current_guild, current_user, editing,
                   inputVars, oldInputVars, commandVars, RUNNING, queue, ev_task,
                   subscribed, ui_wait, panicked, overflow_checks>>

\* --------------------------------------------- key handler: modes and sends
UiRest == <<storeVars, editing, inputVars, oldInputVars, commandVars, RUNNING,
            taskVars, panicked, overflow_checks>>

\* A key that only changes the mode.
SwitchMode(from, to) ==
    /\ UiReady /\ mode = from
    /\ mode' = to
    /\ UNCHANGED <<UiRest, queue, ui_wait>>

\* `tx.send(e).await` inside a handler that holds the state lock lk: with room
\* in the queue the event is queued and the handler goes on to set the mode to
\* `post`; on a full queue the handler is suspended, holding the lock.
UiSend(e, lk, pre, post) ==
    IF Len(queue) < QueueCap
    THEN /\ queue' = Append(queue, e)
         /\ mode' = post
         /\ UNCHANGED ui_wait
    ELSE /\ ui_wait' = [waiting |-> TRUE, ev |-> e, lock |-> lk, then |-> post,
                        restore |-> FALSE]
         /\ mode' = pre
         /\ UNCHANGED queue

\* The handler's path without a send.
UiNoSend(m) ==
    /\ mode' = m
    /\ UNCHANGED <<queue, ui_wait>>

\* The suspended send completes and the handler runs to its end.
UiResume ==
    /\ ProcessAlive /\ "ui" \notin panicked
    /\ ui_wait.waiting
    /\ Len(queue) < QueueCap
    /\ queue' = Append(queue, ui_wait.ev)
    /\ mode' = ui_wait.then
    /\ ui_wait' = NoWait
    /\ IF ui_wait.restore
       THEN /\ input' = old_input
            /\ input_byte_pos' = old_input_byte_pos
            /\ input_char_pos' = old_input_char_pos
            /\ old_input' = <<>>
            /\ UNCHANGED <<old_input_byte_pos, old_input_char_pos>>
       ELSE UNCHANGED <<inputVars, oldInputVars>>
    /\ UNCHANGED <<storeVars, editing, commandVars, RUNNING, taskVars, panicked,
                   overflow_checks>>

NormalS == SwitchMode("TextNormal", "Scroll")
NormalG == SwitchMode("TextNormal", "GuildSelect")
NormalC == SwitchMode("TextNormal", "ChannelSelect")
ScrollEsc == SwitchMode("Scroll", "TextNormal")
ScrollD == SwitchMode("Scroll", "Delete")
GuildEsc == SwitchMode("GuildSelect", "TextNormal")
GuildL == SwitchMode("GuildSelect", "GuildLeave")
ChannelEsc == SwitchMode("ChannelSelect", "TextNormal")

\* ------------------------------------------------- key handler: Scroll mode
\* `messages_list.len() - scroll_selected - 1`: whether it underflows, and its
\* wrapped value.
SelectedUnderflows(ch) == Len(ch.messages_list) <= ch.scroll_selected
SelectedIndex(ch) == WrapSub(WrapSub(Len(ch.messages_list), ch.scroll_selected), 1)

\* `messages_list.get(..).and_then(|v| messages_map.get(v))`: whether it is Some
HasSelectedMessage(ch) ==
    /\ SelectedIndex(ch) < Len(ch.messages_list)
    /\ ch.messages_list[SelectedIndex(ch) + 1] \in DOMAIN ch.messages_map
SelectedMessageMutant(ch) == ch.messages_map[ch.messages_list[1]]
SelectedMessage(ch) == ch.messages_map[ch.messages_list[SelectedIndex(ch) + 1]]

\* `messages_list.first().and_then(|v| messages_map.get(v)).map(|v| v.id)`
OldestLoaded(ch) ==
    IF ch.messages_list # <<>> /\ ch.messages_list[1] \in DOMAIN ch.messages_map
    THEN ch.messages_map[ch.messages_list[1]].id
    ELSE None

SetCurrentChannel(ch) ==
    guilds_map' = SetChannel(guilds_map, current_guild, CurrentChannelId, ch)

ScrollUpMutant(ch) ==
    [ch EXCEPT !.scroll_selected = WrapAdd(@, 1)]

\* Scroll up: the channel after k / Up.
ScrollUpChannel(ch) ==
    IF ch.scroll_selected < Len(ch.messages_list)
    THEN [ch EXCEPT !.scroll_selected = @ + 1]
    ELSE ch

\* Scroll: k / Up
ScrollUp ==
    /\ UiReady /\ mode = "Scroll"
    /\ IF HasCurrentChannel
       THEN LET ch == ScrollUpChannel(CurrentChannel) IN
            /\ SetCurrentChannel(ch)
            /\ IF ch # CurrentChannel /\ ch.scroll_selected >= Len(ch.messages_list)
               THEN UiSend([kind |-> "GetMoreMessages", message_id |-> OldestLoaded(ch)],
                           "write", mode, mode)
               ELSE UiNoSend(mode)
       ELSE UNCHANGED <<guilds_map, mode, queue, ui_wait>>
    /\ UNCHANGED <<users, guilds_list, guilds_select, current_guild, current_user,
                   editing, inputVars, oldInputVars, commandVars, RUNNING, taskVars,
                   panicked, overflow_checks>>

\* Scroll: j / Down
ScrollDown ==
    /\ UiReady /\ mode = "Scroll"
    /\ IF HasCurrentChannel /\ CurrentChannel.scroll_selected > 0
       THEN SetCurrentChannel([CurrentChannel EXCEPT !.scroll_selected = @ - 1])
       ELSE UNCHANGED guilds_map
    /\ UNCHANGED <<mode, users, guilds_list, guilds_select, current_guild, current_user,
                   editing, inputVars, oldInputVars, commandVars, RUNNING, queue,
                   taskVars, ui_wait, panicked, overflow_checks>>

\* Scroll: g, go to top: `scroll_selected = messages_list.len() - 1`
ScrollTop ==
    /\ UiReady /\ mode = "Scroll"
    /\ IF ~HasCurrentChannel
       THEN UNCHANGED <<guilds_map, panicked>>
       ELSE IF CurrentChannel.messages_list = <<>> /\ overflow_checks
       THEN /\ panicked' = panicked \cup {"ui"}
            /\ UNCHANGED guilds_map
       ELSE /\ SetCurrentChannel([CurrentChannel EXCEPT !.scroll_selected =
                                    WrapSub(Len(CurrentChannel.messages_list), 1)])
            /\ UNCHANGED panicked
    /\ UNCHANGED <<mode, users, guilds_list, guilds_select, current_guild, current_user,
                   editing, inputVars, oldInputVars, commandVars, RUNNING, queue,
                   taskVars, ui_wait, overflow_checks>>

\* Scroll: G, go to bottom
ScrollBottom ==
    /\ UiReady /\ mode = "Scroll"
    /\ IF HasCurrentChannel
       THEN SetCurrentChannel([CurrentChannel EXCEPT !.scroll_selected = 0])
       ELSE UNCHANGED guilds_map
    /\ UNCHANGED <<mode, users, guilds_list, guilds_select, current_guild, current_user,
                   editing, inputVars, oldInputVars, commandVars, RUNNING, queue,
                   taskVars, ui_wait, panicked, overflow_checks>>

\* delete_message, called from mode `pre` and followed by the mode `post`: the
\* Delete intent for the scroll-selected message if the current user wrote it.
delete_message(pre, post) ==
    IF ~HasCurrentChannel
    THEN UiNoSend(post) /\ UNCHANGED panicked
    ELSE IF SelectedUnderflows(CurrentChannel) /\ overflow_checks
    THEN /\ panicked' = panicked \cup {"ui"}
         /\ UNCHANGED <<mode, queue, ui_wait>>
    ELSE /\ UNCHANGED panicked
         /\ IF HasSelectedMessage(CurrentChannel)
               /\ SelectedMessage(CurrentChannel).author_id = current_user
            THEN UiSend([kind |-> "Delete",
                         message_id |-> SelectedMessage(CurrentChannel).id],
                        "read", pre, post)
            ELSE UiNoSend(post)

UiRestNoPanic == <<storeVars, editing, inputVars, oldInputVars, commandVars, RUNNING,
                   taskVars, overflow_checks>>

\* Scroll: Ctrl-d
ScrollCtrlD ==
    /\ UiReady /\ mode = "Scroll"
    /\ delete_message("Scroll", "Scroll")
    /\ UNCHANGED UiRestNoPanic

\* Delete (the deletion prompt): y deletes, every key returns to Scroll.
DeleteKey(y) ==
    /\ UiReady /\ mode = "Delete"
    /\ IF y THEN delete_message("Delete", "Scroll")
       ELSE UiNoSend("Scroll") /\ UNCHANGED panicked
    /\ UNCHANGED UiRestNoPanic

\* The character offset `e` gives the buffer: `temp.len()`.
EditCharPosMutant(text) == 0

EditCharPos(text) == Len(text)

\* Scroll: e, begin editing the scroll-selected message.
ScrollE ==
    /\ UiReady /\ mode = "Scroll"
    /\ IF ~HasCurrentChannel
       THEN UNCHANGED <<mode, editing, inputVars, oldInputVars, panicked>>
       ELSE IF SelectedUnderflows(CurrentChannel) /\ overflow_checks
       THEN /\ panicked' = panicked \cup {"ui"}
            /\ UNCHANGED <<mode, editing, inputVars, oldInputVars>>
       ELSE IF HasSelectedMessage(CurrentChannel)
               /\ SelectedMessage(CurrentChannel).author_id = current_user
       THEN LET temp == SelectedMessage(CurrentChannel).content IN
            /\ mode' = "TextInsert"
            /\ editing' = TRUE
            /\ old_input_byte_pos' = input_byte_pos
            /\ input_byte_pos' = Len(temp)
            /\ old_input_char_pos' = input_char_pos
            /\ input_char_pos' = EditCharPos(temp)
            /\ input' = temp
            /\ old_input' = input
            /\ UNCHANGED panicked
       ELSE UNCHANGED <<mode, editing, inputVars, oldInputVars, panicked>>
    /\ UNCHANGED <<storeVars, commandVars, RUNNING, queue, taskVars, ui_wait,
                   overflow_checks>>

\* -------------------------------------------- key handler: submit and cancel
\* TextNormal: Esc while editing cancels the edit and restores the saved buffer.
NormalEsc ==
    /\ UiReady /\ mode = "TextNormal"
    /\ editing
    /\ mode' = "Scroll"
    /\ editing' = FALSE
    /\ input_byte_pos' = old_input_byte_pos
    /\ input_char_pos' = old_input_char_pos
    /\ input' = old_input
    /\ old_input' = <<>>
    /\ UNCHANGED <<storeVars, old_input_byte_pos, old_input_char_pos, commandVars,
                   RUNNING, queue, taskVars, ui_wait, panicked, overflow_checks>>

\* send_message while editing: the buffer is taken, the Edit intent is sent
\* for the scroll-selected message, the saved buffer is restored.
SendEdit ==
    LET sends == /\ HasCurrentChannel
                 /\ SelectedIndex(CurrentChannel) < Len(CurrentChannel.messages_list)
                 /\ input # <<>>
    IN
    IF HasCurrentChannel /\ SelectedUnderflows(CurrentChannel) /\ overflow_checks
    THEN /\ panicked' = panicked \cup {"ui"}
         /\ editing' = FALSE
         /\ input' = <<>>
         /\ UNCHANGED <<mode, input_byte_pos, input_char_pos, oldInputVars, queue,
                        ui_wait>>
    ELSE IF sends /\ Len(queue) >= QueueCap
    THEN /\ ui_wait' = [waiting |-> TRUE,
                        ev |-> [kind |-> "Edit",
                                message_id |-> CurrentChannel.messages_list[
                                                   SelectedIndex(CurrentChannel) + 1],
                                text |-> input],
                        lock |-> "write", then |-> "Scroll", restore |-> TRUE]
         /\ editing' = FALSE
         /\ input' = <<>>
         /\ UNCHANGED <<mode, input_byte_pos, input_char_pos, oldInputVars, queue,
                        panicked>>
    ELSE /\ queue' = IF sends
                     THEN Append(queue,
                                 [kind |-> "Edit",
                                  message_id |-> CurrentChannel.messages_list[
                                                     SelectedIndex(CurrentChannel) + 1],
                                  text |-> input])
                     ELSE queue
         /\ mode' = "Scroll"
         /\ editing' = FALSE
         /\ input_byte_pos' = old_input_byte_pos
         /\ input_char_pos' = old_input_char_pos
         /\ input' = old_input
         /\ old_input' = <<>>
         /\ UNCHANGED <<old_input_byte_pos, old_input_char_pos, ui_wait, panicked>>

\* send_message while not editing: the buffer is taken and sent if not empty.
SendText ==
    /\ input' = <<>>
    /\ input_byte_pos' = 0
    /\ input_char_pos' = 0
    /\ IF input # <<>>
       THEN UiSend([kind |-> "Send", text |-> input], "write", mode, mode)
       ELSE UiNoSend(mode)
    /\ UNCHANGED <<editing, oldInputVars, panicked>>

send_message ==
    /\ IF editing THEN SendEdit ELSE SendText
    /\ UNCHANGED <<storeVars, commandVars, RUNNING, taskVars, overflow_checks>>

\* TextNormal: Enter
NormalEnter == UiReady /\ mode = "TextNormal" /\ send_message

\* TextInsert: Enter
InsertEnter == UiReady /\ mode = "TextInsert" /\ send_message

\* ----------------------------------------------- key handler: command prompt
Cmd_q == <<113>>
Cmd_quit == <<113, 117, 105, 116>>
Cmd_join == <<106, 111, 105, 110, 32>>

\* str::strip_prefix: whether it is Some, and the rest
HasPrefix(s, p) == Len(s) >= Len(p) /\ SubSeq(s, 1, Len(p)) = p
StripPrefixMutant(s, p) == s
StripPrefix(s, p) == SubSeq(s, Len(p) + 1, Len(s))

\* Command: Enter
CommandEnter ==
    /\ UiReady /\ mode = "Command"
    /\ IF command = Cmd_q \/ command = Cmd_quit
       THEN /\ RUNNING' = FALSE
            /\ UiSend([kind |-> "Quit"], "read", "TextNormal", "TextNormal")
       ELSE IF HasPrefix(command, Cmd_join)
       THEN /\ UiSend([kind |-> "JoinGuild", invite |-> StripPrefix(command, Cmd_join)],
                      "read", "TextNormal", "TextNormal")
            /\ UNCHANGED RUNNING
       ELSE /\ UiNoSend("TextNormal")
            /\ UNCHANGED RUNNING
    /\ UNCHANGED <<storeVars, editing, inputVars, oldInputVars, commandVars, taskVars,
                   panicked, overflow_checks>>

\* ------------------------------------- key handler: guild and channel select
SelectRest == <<users, current_user, editing, inputVars, oldInputVars, commandVars,
                RUNNING, taskVars, panicked, overflow_checks>>

SelectDownMutant(sel, n) ==
    IF sel # None THEN sel + 1 ELSE 0

\* j / Down on a selection over a list of length n
SelectDown(sel, n) ==
    IF sel # None
    THEN IF sel + 1 < n THEN sel + 1 ELSE sel
    ELSE IF n > 0 THEN 0 ELSE None

\* k / Up on a selection over a list of length n
SelectUp(sel, n) ==
    IF sel # None
    THEN IF sel > 0 THEN sel - 1 ELSE sel
    ELSE IF n > 0 THEN n - 1 ELSE None

\* GuildSelect: j / Down
GuildDown ==
    /\ UiReady /\ mode = "GuildSelect"
    /\ guilds_select' = SelectDown(guilds_select, Len(guilds_list))
    /\ UNCHANGED <<mode, guilds_map, guilds_list, current_guild, SelectRest, queue,
                   ui_wait>>

\* GuildSelect: k / Up
GuildUp ==
    /\ UiReady /\ mode = "GuildSelect"
    /\ guilds_select' = SelectUp(guilds_select, Len(guilds_list))
    /\ UNCHANGED <<mode, guilds_map, guilds_list, current_guild, SelectRest, queue,
                   ui_wait>>

\* GuildSelect: Enter
GuildEnter ==
    /\ UiReady /\ mode = "GuildSelect"
    /\ LET selected == IF guilds_select # None THEN ListGet(guilds_list, guilds_select)
                       ELSE None
       IN
       /\ current_guild' = selected
       /\ IF selected # None /\ selected \in DOMAIN guilds_map
          THEN IF guilds_map[selected].channels_list = <<>>
               THEN UiSend([kind |-> "GetChannels"], "write", mode, "ChannelSelect")
               ELSE UiNoSend("ChannelSelect")
          ELSE UiNoSend(mode)
    /\ UNCHANGED <<guilds_map, guilds_list, guilds_select, SelectRest>>

\* GuildLeave (the leave prompt): y leaves the selected guild, every key
\* returns to GuildSelect.
GuildLeaveKey(y) ==
    /\ UiReady /\ mode = "GuildLeave"
    /\ LET selected == IF guilds_select # None THEN ListGet(guilds_list, guilds_select)
                       ELSE None
       IN
       IF y /\ selected # None
       THEN UiSend([kind |-> "LeaveGuild", guild_id |-> selected], "read", mode,
                   "GuildSelect")
       ELSE UiNoSend("GuildSelect")
    /\ UNCHANGED <<guildVars, SelectRest>>

\* ChannelSelect: j / Down
ChannelDown ==
    /\ UiReady /\ mode = "ChannelSelect"
    /\ IF HasCurrentGuild
       THEN guilds_map' = [guilds_map EXCEPT ![current_guild].channels_select =
                               SelectDown(@, Len(guilds_map[current_guild].channels_list))]
       ELSE UNCHANGED guilds_map
    /\ UNCHANGED <<mode, guilds_list, guilds_select, current_guild, SelectRest, queue,
                   ui_wait>>

\* ChannelSelect: k / Up
ChannelUp ==
    /\ UiReady /\ mode = "ChannelSelect"
    /\ IF HasCurrentGuild
       THEN guilds_map' = [guilds_map EXCEPT ![current_guild].channels_select =
                               SelectUp(@, Len(guilds_map[current_guild].channels_list))]
       ELSE UNCHANGED guilds_map
    /\ UNCHANGED <<mode, guilds_list, guilds_select, current_guild, SelectRest, queue,
                   ui_wait>>

\* ChannelSelect: Enter
ChannelEnter ==
    /\ UiReady /\ mode = "ChannelSelect"
    /\ IF HasCurrentGuild
       THEN LET guild == guilds_map[current_guild]
                selected == IF guild.channels_select # None
                            THEN ListGet(guild.channels_list, guild.channels_select)
                            ELSE None
            IN
            /\ guilds_map' = [guilds_map EXCEPT ![current_guild].current_channel =
                                  selected]
            /\ IF selected # None /\ selected \in DOMAIN guild.channels_map
               THEN IF guild.channels_map[selected].messages_list = <<>>
                    THEN UiSend([kind |-> "GetMoreMessages", message_id |-> None],
                                "write", mode, "TextNormal")
                    ELSE UiNoSend("TextNormal")
               ELSE UiNoSend(mode)
       ELSE UNCHANGED <<guilds_map, mode, queue, ui_wait>>
    /\ UNCHANGED <<guilds_list, guilds_select, current_guild, SelectRest>>

\* ------------------------------------------------------- auth negotiator
\* str::replace(from, to) on one-byte characters.
Replace(s, from, to) == [i \in 1..Len(s) |-> IF s[i] = from THEN to ELSE s[i]]

\* Option lists and form layouts (the `type` of each field) a server sends.
\* "a-b" and "a b": options may hold both `-` (45) and space (32).
OptionLists == {<<>>, <<<<97, 45, 98>>, <<97, 32, 98>>>>}
FieldLists == {<<>>, <<"number">>, <<"text", "new-password">>}

\* AuthStep with its can_go_back and its optional inner Step.
AuthSteps ==
    [kind : {"Choice"}, can_go_back : BOOLEAN, options : OptionLists]
        \cup [kind : {"Form"}, can_go_back : BOOLEAN, fields : FieldLists]
        \cup [kind : {"Waiting", "Session", "Empty"}, can_go_back : BOOLEAN]

\* The AuthInput a Choice, Form or Waiting step is shown as.
StepInput(step) ==
    IF step.kind = "Choice"
    THEN [kind |-> "Choice",
          choices |-> [i \in 1..Len(step.options) |-> Replace(step.options[i], 45, 32)],
          current_choice |-> None]
    ELSE IF step.kind = "Form"
    THEN [kind |-> "Form",
          fields |-> [i \in 1..Len(step.fields) |->
                        [type |-> IF step.fields[i] \in {"password", "new-password",
                                                          "email", "number"}
                                  THEN step.fields[i] ELSE "text",
                         input |-> <<>>,
                         input2 |-> IF step.fields[i] = "new-password"
                                    THEN <<(<<>>)>> ELSE <<>>]],
          selected |-> None, selected_second |-> FALSE, editing |-> FALSE]
    ELSE [kind |-> "Waiting"]

ApplyStepMutant(st, step) == st

\* The head of the `'a` loop applied to `step`.
ApplyStep(st, step) ==
    IF step.kind \in {"None", "Empty"} THEN st
    ELSE [can_go_back |-> step.can_go_back,
          input |-> IF step.kind = "Session" THEN st.input ELSE StepInput(step)]

\* What auth() and auth_ui_events leave alone.
sessionVars == <<mode, storeVars, editing, inputVars, oldInputVars, commandVars, queue,
                 taskVars, ui_wait, overflow_checks>>

AuthTaskOnly == UNCHANGED <<sessionVars, RUNNING, panicked, auth_queue, auth_keys>>

\* `client.next_auth_step(AuthStepResponse::Initial).await.unwrap_or(None)`
AuthFirstStep(step) ==
    /\ auth_task.pc = "begin"
    /\ auth_task' = [auth_task EXCEPT !.pc = "head", !.step = step]
    /\ UNCHANGED auth_state
    /\ AuthTaskOnly

\* `'a: while RUNNING.load()`: the step is shown, or the loop ends.
AuthHead ==
    /\ auth_task.pc = "head"
    /\ IF RUNNING
       THEN /\ auth_state' = ApplyStep(auth_state, auth_task.step)
            /\ auth_task' = [auth_task EXCEPT !.pc = "recv", !.step = NoStep]
       ELSE /\ auth_task' = [auth_task EXCEPT !.pc = "ended"]
            /\ UNCHANGED auth_state
    /\ AuthTaskOnly

\* auth_ui_events has returned or panicked: its Sender is dropped.
SenderDropped == auth_keys = "stopped" \/ "auth_ui" \in panicked

\* rx.recv(): the next request, or None once the queue is empty and closed.
AuthRecv ==
    /\ auth_task.pc = "recv"
    /\ IF auth_queue # <<>>
       THEN /\ auth_task' = [pc |-> "call", step |-> NoStep, session |-> auth_task.session,
                             request |-> Head(auth_queue)]
            /\ auth_queue' = Tail(auth_queue)
       ELSE /\ SenderDropped
            /\ auth_task' = [auth_task EXCEPT !.pc = "ended"]
            /\ UNCHANGED auth_queue
    /\ UNCHANGED <<sessionVars, RUNNING, panicked, auth_state, auth_keys>>

AfterCall(pc, step, session) == [pc |-> pc, step |-> step, session |-> session]

\* prev_auth_step() returns: Ok(back) or Err.
AuthPrevReturn(ok, step) ==
    /\ auth_task.pc = "call" /\ auth_task.request.kind = "Initial"
    /\ auth_task' = IF ok THEN AfterCall("head", step, auth_task.session)
                    ELSE AfterCall("recv", NoStep, auth_task.session)
    /\ UNCHANGED auth_state
    /\ AuthTaskOnly

\* next_auth_step(request) returns: Ok(Some(forwards)), Ok(None) with the
\* session established, or Err.
AuthNextReturn(response, step) ==
    /\ auth_task.pc = "call" /\ auth_task.request.kind # "Initial"
    /\ auth_task' = IF response = "Some" THEN AfterCall("head", step, auth_task.session)
                    ELSE IF response = "None" THEN AfterCall("ended", NoStep, TRUE)
                    ELSE AfterCall("recv", NoStep, auth_task.session)
    /\ UNCHANGED auth_state
    /\ AuthTaskOnly

\* main after auth(): it returns if RUNNING is false, otherwise it saves the
\* session (unwrapping it, if there is a data directory) and starts the session.
MainAfterAuth(data_dir) ==
    /\ auth_task.pc = "ended" /\ "main" \notin panicked
    /\ IF ~RUNNING
       THEN auth_task' = [auth_task EXCEPT !.pc = "returned"] /\ UNCHANGED panicked
       ELSE IF data_dir /\ ~auth_task.session
       THEN panicked' = panicked \cup {"main"} /\ UNCHANGED auth_task
       ELSE auth_task' = [auth_task EXCEPT !.pc = "session"] /\ UNCHANGED panicked
    /\ UNCHANGED <<sessionVars, RUNNING, auth_state, auth_queue, auth_keys>>

\* auth_ui_events can take the next key: it has not returned, panicked or
\* been aborted at the end of auth().
AuthKeyReady ==
    /\ auth_task.pc \in {"begin", "head", "recv", "call"}
    /\ auth_keys = "running"
    /\ "auth_ui" \notin panicked

AuthInputIs(kind) == AuthKeyReady /\ auth_state.input.kind = kind

AuthKeyOnly == UNCHANGED <<sessionVars, RUNNING, panicked, auth_queue, auth_task, auth_keys>>

SetAuthInput(in) == auth_state' = [auth_state EXCEPT !.input = in]

\* `tx.send(response)`; the channel holds 128 requests, here MaxAuthQueue.
AuthSend(response) ==
    /\ Len(auth_queue) < MaxAuthQueue
    /\ auth_queue' = Append(auth_queue, response)
    /\ UNCHANGED <<sessionVars, RUNNING, panicked, auth_state, auth_task, auth_keys>>

AuthPanics ==
    /\ panicked' = panicked \cup {"auth_ui"}
    /\ UNCHANGED <<sessionVars, RUNNING, auth_state, auth_queue, auth_task, auth_keys>>

\* The guard of the `h` / Right and `q` arms: in a Form, not while editing.
NotTyping == auth_state.input.kind = "Form" => ~auth_state.input.editing

\* h / Right with can_go_back
AuthBack ==
    /\ AuthKeyReady /\ NotTyping
    /\ auth_state.can_go_back
    /\ AuthSend([kind |-> "Initial"])

\* q
AuthQuit ==
    /\ AuthKeyReady /\ NotTyping
    /\ RUNNING' = FALSE
    /\ auth_keys' = "stopped"
    /\ UNCHANGED <<sessionVars, panicked, auth_state, auth_queue, auth_task>>

\* Choice: j / Down / Tab
ChoiceDown ==
    /\ AuthInputIs("Choice")
    /\ LET in == auth_state.input IN
       SetAuthInput([in EXCEPT !.current_choice =
                        IF @ # None
                        THEN (IF @ + 1 < Len(in.choices) THEN @ + 1 ELSE @)
                        ELSE 0])
    /\ AuthKeyOnly

\* `len() - 1` of the k / Up / BackTab arms on nothing selected.
LastIndex(n) == WrapSub(n, 1)

\* Choice: k / Up / BackTab
ChoiceUp ==
    /\ AuthInputIs("Choice")
    /\ LET in == auth_state.input IN
       IF in.current_choice = None /\ in.choices = <<>> /\ overflow_checks
       THEN AuthPanics
       ELSE /\ SetAuthInput([in EXCEPT !.current_choice =
                                IF @ # None THEN (IF @ > 0 THEN @ - 1 ELSE @)
                                ELSE LastIndex(Len(in.choices))])
            /\ AuthKeyOnly

\* Choice: Enter
ChoiceEnter ==
    /\ AuthInputIs("Choice")
    /\ LET in == auth_state.input IN
       IF in.current_choice = None
       THEN UNCHANGED <<auth_state, auth_queue>> /\ AuthKeyOnly
       ELSE IF in.current_choice >= Len(in.choices)
       THEN AuthPanics
       ELSE AuthSend([kind |-> "Choice",
                      choice |-> Replace(in.choices[in.current_choice + 1], 32, 45)])

\* Form: Esc
FormEsc ==
    /\ AuthInputIs("Form")
    /\ SetAuthInput([auth_state.input EXCEPT !.editing = FALSE])
    /\ AuthKeyOnly

\* Form: Tab, or j / Down while not editing
FormDownMutant(key) ==
    /\ AuthInputIs("Form")
    /\ key = "Tab" \/ ~auth_state.input.editing
    /\ LET in == auth_state.input IN
       SetAuthInput([in EXCEPT !.selected = IF @ # None THEN @ ELSE 0,
                               !.selected_second = in.selected # None])
    /\ AuthKeyOnly

FormDown(key) ==
    /\ AuthInputIs("Form")
    /\ key = "Tab" \/ ~auth_state.input.editing
    /\ LET in == auth_state.input IN
       SetAuthInput([in EXCEPT !.selected =
                        IF @ # None
                        THEN (IF @ + 1 < Len(in.fields) THEN @ + 1 ELSE @)
                        ELSE 0])
    /\ AuthKeyOnly

\* Form: BackTab, or k / Up while not editing
FormUp(key) ==
    /\ AuthInputIs("Form")
    /\ key = "BackTab" \/ ~auth_state.input.editing
    /\ LET in == auth_state.input IN
       IF in.selected = None /\ in.fields = <<>> /\ overflow_checks
       THEN AuthPanics
       ELSE /\ SetAuthInput([in EXCEPT !.selected =
                                IF @ # None THEN (IF @ > 0 THEN @ - 1 ELSE @)
                                ELSE LastIndex(Len(in.fields))])
            /\ AuthKeyOnly

\* Form: i while not editing, with a field selected
FormI ==
    /\ AuthInputIs("Form")
    /\ ~auth_state.input.editing /\ auth_state.input.selected # None
    /\ SetAuthInput([auth_state.input EXCEPT !.editing = TRUE])
    /\ AuthKeyOnly

\* `selected.and_then(|v| fields.get_mut(v))` is Some
HasSelectedField(in) == in.selected # None /\ in.selected < Len(in.fields)

\* The selected field after `edit` is applied to the input the keys go to.
EditField(in, edit(_)) ==
    IF in.selected_second
    THEN [in EXCEPT !.fields[in.selected + 1].input2[1] = edit(@)]
    ELSE [in EXCEPT !.fields[in.selected + 1].input = edit(@)]

\* `input2.as_mut().unwrap()` on a field without confirmation
UnwrapsNone(in) ==
    HasSelectedField(in) /\ in.selected_second /\ in.fields[in.selected + 1].input2 = <<>>

\* Form: a character key c while editing
FormChar(c) ==
    /\ AuthInputIs("Form")
    /\ auth_state.input.editing
    /\ LET in == auth_state.input
           push(str) == Append(str, c)
       IN  IF UnwrapsNone(in) THEN AuthPanics
           ELSE IF HasSelectedField(in)
           THEN /\ Len(in.fields[in.selected + 1].input) < MaxFieldLen
                /\ SetAuthInput(EditField(in, push))
                /\ AuthKeyOnly
           ELSE UNCHANGED auth_state /\ AuthKeyOnly

\* Form: Backspace while editing
FormBackspace ==
    /\ AuthInputIs("Form")
    /\ auth_state.input.editing
    /\ LET in == auth_state.input
           pop(str) == SubSeq(str, 1, Len(str) - 1)
       IN  IF UnwrapsNone(in) THEN AuthPanics
           ELSE IF HasSelectedField(in)
           THEN SetAuthInput(EditField(in, pop)) /\ AuthKeyOnly
           ELSE UNCHANGED auth_state /\ AuthKeyOnly

\* `input.parse()` of a number field is Ok: digits, not empty.
Parses(str) == str # <<>> /\ \A i \in 1..Len(str) : str[i] \in 48..57

FieldAcceptedMutant(f) == TRUE

\* The field passes the conversion of the Enter arm without a panic.
FieldAccepted(f) ==
    IF f.type = "number" THEN Parses(f.input)
    ELSE IF f.type = "new-password" THEN f.input2 # <<>> /\ f.input = f.input2[1]
    ELSE TRUE

\* Field::String / Field::Number / Field::Bytes of the field's input
FieldValue(f) ==
    [as |-> IF f.type \in {"text", "email"} THEN "String"
            ELSE IF f.type = "number" THEN "Number" ELSE "Bytes",
     value |-> f.input]

\* Form: Enter
FormEnter ==
    /\ AuthInputIs("Form")
    /\ LET fields == auth_state.input.fields IN
       IF \A i \in 1..Len(fields) : FieldAccepted(fields[i])
       THEN AuthSend([kind |-> "Form",
                      fields |-> [i \in 1..Len(fields) |-> FieldValue(fields[i])]])
       ELSE AuthPanics

\* --------------------------------------------------------- specifications
\* The history variable after a step of the session: the step's name and
\* input, or nothing for the steps no property below asks about.  The session
\* runs after auth() has returned and leaves its state alone.
Did(op) == last' = op /\ UNCHANGED <<authVars, termVars>>
Untagged == last' = <<"-">> /\ UNCHANGED <<authVars, termVars>>

\* The buffer keys of TextNormal, TextInsert and Command, with characters of
\* every UTF-8 width.
NextBuffer ==
    \/ NormalI /\ Untagged
    \/ NormalLeft /\ Untagged
    \/ NormalRight /\ Untagged
    \/ NormalColon /\ Untagged
    \/ InsertEsc /\ Untagged
    \/ InsertLeft /\ Untagged
    \/ InsertRight /\ Untagged
    \/ InsertBackspace /\ Untagged
    \/ \E c \in WideChars : InsertKey(c) /\ Untagged
    \/ CommandEsc /\ Untagged
    \/ CommandLeft /\ Untagged
    \/ CommandRight /\ Untagged
    \/ CommandBackspace /\ Untagged
    \/ \E c \in WideChars : Len(command) + Len(c) <= MaxInputBytes /\ CommandKey(c) /\ Untagged

SpecBuffer == Init /\ [][NextBuffer]_vars

\* The ids the server uses, and its answers.
GuildIds == 1..MaxGuildId
ChannelIds == 1..MaxChannelId
MsgIds == 1..MaxMsgId

\* The sequences of distinct elements of S.
DistinctSeqs(S) ==
    {l \in UNION {[1..k -> S] : k \in 0..Cardinality(S)} :
        \A i, j \in 1..Len(l) : i # j => l[i] # l[j]}

\* The user types the command `join x`, one key after the other.
JoinScript == Cmd_join \o <<120>>
TypesJoin(c) ==
    /\ command_byte_pos = Len(command)
    /\ HasPrefix(JoinScript, command \o c)
    /\ CommandKey(c)

\* Guild and channel navigation, joining, and guilds removed from the list.
NextGuild ==
    \/ LoadGuilds(<<1, 2>>) /\ Untagged
    \/ NormalG /\ Untagged
    \/ NormalC /\ Untagged
    \/ NormalColon /\ Untagged
    \/ \E c \in {<<JoinScript[i]>> : i \in 1..Len(JoinScript)} : TypesJoin(c) /\ Untagged
    \/ CommandEnter /\ Untagged
    \/ GuildEsc /\ Untagged
    \/ GuildDown /\ Untagged
    \/ GuildUp /\ Untagged
    \/ GuildEnter /\ Untagged
    \/ ChannelEsc /\ Untagged
    \/ ChannelDown /\ Untagged
    \/ ChannelUp /\ Untagged
    \/ ChannelEnter /\ Untagged
    \/ UiResume /\ Untagged
    \/ \E g \in GuildIds : EvGuildRemoved(g) /\ Untagged
    \/ MainRecv /\ Untagged
    \/ MainGetChannels /\ Untagged
    \/ \E cs \in DistinctSeqs(ChannelIds) : MainChannelsReturn(cs) /\ Untagged
    \/ MainJoinGuild /\ Untagged
    \/ \E g \in GuildIds, found \in BOOLEAN : MainJoinReturn(g, found) /\ Untagged
    \/ MainGetMore /\ Untagged
    \/ MainMoreReturn(<<>>, FALSE) /\ Untagged

SpecGuild == Init /\ [][NextGuild]_vars

\* The messages the server holds: odd ids are the account's own messages,
\* message 1 is one two-byte character, message 2 carries a username
\* override, and a message's creation time is ten times its id.  An Option
\* of a string or a time is a sequence of no or one element.
AuthorOf(id) == IF id % 2 = 1 THEN Me ELSE Other
TextOf(id) == IF id = 1 THEN Chr_2 ELSE Chr_q
ServerMessage(id) ==
    [id |-> id, author_id |-> AuthorOf(id), kind |-> "text", text |-> TextOf(id),
     override |-> IF id = 2 THEN <<Chr_q>> ELSE <<>>, created_at |-> 10 * id,
     edited_at |-> <<>>]
Pages == {[i \in 1..Len(l) |-> ServerMessage(l[i])] : l \in DistinctSeqs(MsgIds)}

\* Whether the channel holds a message id: in its list or in its map.
Holds(gm, guild_id, channel_id, id) ==
    /\ HasChannel(gm, guild_id, channel_id)
    /\ \/ id \in Range(gm[guild_id].channels_map[channel_id].messages_list)
       \/ id \in DOMAIN gm[guild_id].channels_map[channel_id].messages_map

\* One guild with one channel is opened and scrolled while messages arrive,
\* are deleted and are backfilled.
NextMessages ==
    \/ LoadGuilds(<<1>>) /\ Untagged
    \/ NormalG /\ Untagged
    \/ GuildDown /\ Untagged
    \/ GuildEnter /\ Untagged
    \/ ChannelDown /\ Untagged
    \/ ChannelEnter /\ Untagged
    \/ NormalS /\ Untagged
    \/ ScrollUp /\ Untagged
    \/ ScrollDown /\ Untagged
    \/ ScrollTop /\ Untagged
    \/ ScrollBottom /\ Untagged
    \/ UiResume /\ Untagged
    \/ EvGuildRemoved(1) /\ Untagged
    \/ \E id \in MsgIds : EvSentMessage(1, 1, id, ServerMessage(id)) /\ Untagged
    \/ \E id \in MsgIds :
          EvDeletedMessage(1, 1, id) /\ Untagged
    \/ EvResume /\ Untagged
    \/ MainRecv /\ Untagged
    \/ MainGetChannels /\ Untagged
    \/ MainChannelsReturn(<<1>>) /\ Untagged
    \/ MainGetMore /\ Untagged
    \/ \E page \in Pages : MainMoreReturn(page, TRUE) /\ Untagged
    \/ MainGetUser /\ Untagged
    \/ MainUserReturn(TRUE) /\ Untagged

SpecMessages == Init /\ [][NextMessages]_vars

\* The entity store as one value.
Store ==
    [users |-> users, guilds_map |-> guilds_map, guilds_list |-> guilds_list,
     guilds_select |-> guilds_select, current_guild |-> current_guild,
     current_user |-> current_user]

\* The channels of a guild are fetched while messages arrive and are deleted:
\* from the channel before it is tracked, while it is, and after its guild is
\* gone.  A DeletedMessage step records its event and the store it met.
NextDelete ==
    \/ LoadGuilds(<<1>>) /\ Untagged
    \/ NormalG /\ Untagged
    \/ GuildDown /\ Untagged
    \/ GuildEnter /\ Untagged
    \/ EvGuildRemoved(1) /\ Untagged
    \/ \E id \in MsgIds : EvSentMessage(1, 1, id, ServerMessage(id)) /\ Untagged
    \/ \E id \in MsgIds :
          EvDeletedMessage(1, 1, id) /\ Did(<<"DeletedMessage", 1, 1, id, Store>>)
    \/ EvResume /\ Untagged
    \/ MainRecv /\ Untagged
    \/ MainGetChannels /\ Untagged
    \/ MainChannelsReturn(<<1>>) /\ Untagged
    \/ MainGetUser /\ Untagged
    \/ MainUserReturn(TRUE) /\ Untagged

SpecDelete == Init /\ [][NextDelete]_vars

\* Messages arrive in a channel and are edited: before the channel is
\* tracked, while it is, and after its guild is gone; with new content and
\* without, each message arriving once and every edit made at time 99.  An
\* EditedMessage step records its event and the store it met.
NextEdited ==
    \/ LoadGuilds(<<1>>) /\ Untagged
    \/ NormalG /\ Untagged
    \/ GuildDown /\ Untagged
    \/ GuildEnter /\ Untagged
    \/ EvGuildRemoved(1) /\ Untagged
    \/ \E id \in MsgIds :
          /\ ~Holds(guilds_map, 1, 1, id)
          /\ EvSentMessage(1, 1, id, ServerMessage(id))
          /\ Untagged
    \/ \E id \in MsgIds, new_content \in {<<>>, <<Chr_3>>} :
          EvEditedMessage(1, 1, id, new_content, 99)
          /\ Did(<<"EditedMessage", 1, 1, id, new_content, 99, Store>>)
    \/ EvResume /\ Untagged
    \/ MainRecv /\ Untagged
    \/ MainGetChannels /\ Untagged
    \/ MainChannelsReturn(<<1>>) /\ Untagged
    \/ MainGetUser /\ Untagged
    \/ MainUserReturn(TRUE) /\ Untagged

SpecEdited == Init /\ [][NextEdited]_vars

\* Messages arrive in a channel whose authors' profiles are fetched, each
\* message arriving once.  A SentMessage step records its event, the store
\* and the queue it met; a returning profile fetch records its user.
NextAuthor ==
    \/ LoadGuilds(<<1>>) /\ Untagged
    \/ NormalG /\ Untagged
    \/ GuildDown /\ Untagged
    \/ GuildEnter /\ Untagged
    \/ \E id \in MsgIds :
          /\ ~Holds(guilds_map, 1, 1, id)
          /\ EvSentMessage(1, 1, id, ServerMessage(id))
          /\ Did(<<"SentMessage", 1, 1, id, AuthorOf(id), Store, queue>>)
    \/ EvResume /\ Untagged
    \/ MainRecv /\ Untagged
    \/ MainGetChannels /\ Untagged
    \/ MainChannelsReturn(<<1>>) /\ Untagged
    \/ MainGetUser /\ Untagged
    \/ \E found \in BOOLEAN :
          MainUserReturn(found) /\ Did(<<"UserReturn", main.user, found>>)

SpecAuthor == Init /\ [][NextAuthor]_vars

\* The page the server answers GetChannelMessages with when it holds the
\* messages 1..MaxMsgId: newest first, from the cursor message down, or from
\* the newest message without a cursor.
ServerPage(message_id) ==
    LET top == IF message_id = None THEN MaxMsgId ELSE message_id
    IN  [i \in 1..top |-> ServerMessage(top + 1 - i)]

\* One channel is opened and scrolled to its top while messages arrive, each
\* once, and history pages are fetched.  A SentMessage step and an applied
\* page record what they met.
NextOrder ==
    \/ LoadGuilds(<<1>>) /\ Untagged
    \/ NormalG /\ Untagged
    \/ GuildDown /\ Untagged
    \/ GuildEnter /\ Untagged
    \/ ChannelDown /\ Untagged
    \/ ChannelEnter /\ Untagged
    \/ NormalS /\ Untagged
    \/ ScrollUp /\ Untagged
    \/ UiResume /\ Untagged
    \/ \E id \in MsgIds :
          /\ ~Holds(guilds_map, 1, 1, id)
          /\ EvSentMessage(1, 1, id, ServerMessage(id))
          /\ Did(<<"SentMessage", 1, 1, id, AuthorOf(id), Store, queue>>)
    \/ EvResume /\ Untagged
    \/ MainRecv /\ Untagged
    \/ MainGetChannels /\ Untagged
    \/ MainChannelsReturn(<<1>>) /\ Untagged
    \/ MainGetMore /\ Untagged
    \/ MainMoreReturn(ServerPage(main.message_id), TRUE)
          /\ Did(<<"Page", main.message_id, ServerPage(main.message_id), Store>>)
    \/ MainGetUser /\ Untagged
    \/ MainUserReturn(TRUE) /\ Untagged

SpecOrder == Init /\ [][NextOrder]_vars

\* The newest page of the channel's history, newest first: the other
\* account's message 2 and the account's own message 1 behind message 3.
HistoryPage == [i \in 1..3 |-> ServerMessage(4 - i)]

\* Typing into the message buffer, kept to drafts of MaxDraftBytes bytes.
TypesDraft(c) ==
    /\ Len(input) + Len(c) <= MaxDraftBytes
    /\ InsertKey(c)

\* One channel is opened, its history arrives, and a message is edited: begun
\* with `e`, typed over, cancelled with Esc or submitted with Enter.
NextEdit ==
    \/ LoadGuilds(<<1>>) /\ Untagged
    \/ NormalG /\ Untagged
    \/ GuildDown /\ Untagged
    \/ GuildEnter /\ Untagged
    \/ ChannelDown /\ Untagged
    \/ ChannelEnter /\ Untagged
    \/ NormalS /\ Untagged
    \/ ScrollUp /\ Untagged
    \/ ScrollDown /\ Untagged
    \/ ScrollEsc /\ Untagged
    \/ ScrollE /\ Did(<<"ScrollE">>)
    \/ NormalI /\ Untagged
    \/ InsertEsc /\ Untagged
    \/ InsertLeft /\ Untagged
    \/ InsertBackspace /\ Untagged
    \/ \E c \in {Chr_q, Chr_2} : TypesDraft(c) /\ Untagged
    \/ NormalEsc /\ Did(<<"NormalEsc">>)
    \/ NormalEnter /\ Did(<<"Enter">>)
    \/ InsertEnter /\ Did(<<"Enter">>)
    \/ UiResume /\ Untagged
    \/ MainRecv /\ Untagged
    \/ MainGetChannels /\ Untagged
    \/ MainChannelsReturn(<<1>>) /\ Untagged
    \/ MainGetMore /\ Untagged
    \/ \E page \in {<<>>, HistoryPage} : MainMoreReturn(page, TRUE) /\ Untagged
    \/ MainRemote /\ Untagged
    \/ MainRemoteReturn /\ Untagged

SpecEdit == Init /\ [][NextEdit]_vars

\* The message buffer with its two offsets.
Draft == <<input, input_byte_pos, input_char_pos>>

\* While an edit is in progress the step keeps the draft held when the flag
\* was last clear; the cancel reports it.
Remembers(op) ==
    /\ last' = IF editing' \/ op = "NormalEsc"
               THEN <<op, IF editing THEN last[2] ELSE Draft>>
               ELSE <<"-">>
    /\ UNCHANGED <<authVars, termVars>>

\* One channel is opened and its history arrives; a draft is typed, `e` is
\* pressed on the selected message, again or not, and the edit is cancelled;
\* the selected message is deleted, with the prompt or without.
NextBegin ==
    \/ LoadGuilds(<<1>>) /\ Remembers("-")
    \/ NormalG /\ Remembers("-")
    \/ GuildDown /\ Remembers("-")
    \/ GuildEnter /\ Remembers("-")
    \/ ChannelDown /\ Remembers("-")
    \/ ChannelEnter /\ Remembers("-")
    \/ NormalS /\ Remembers("-")
    \/ ScrollUp /\ Remembers("-")
    \/ ScrollDown /\ Remembers("-")
    \/ ScrollEsc /\ Remembers("-")
    \/ ScrollE /\ Remembers("ScrollE")
    \/ ScrollD /\ Remembers("-")
    \/ ScrollCtrlD /\ Remembers("-")
    \/ \E y \in BOOLEAN : DeleteKey(y) /\ Remembers("-")
    \/ NormalI /\ Remembers("-")
    \/ InsertEsc /\ Remembers("-")
    \/ TypesDraft(Chr_q) /\ Remembers("-")
    \/ NormalEsc /\ Remembers("NormalEsc")
    \/ UiResume /\ Remembers("-")
    \/ MainRecv /\ Remembers("-")
    \/ MainGetChannels /\ Remembers("-")
    \/ MainChannelsReturn(<<1>>) /\ Remembers("-")
    \/ MainGetMore /\ Remembers("-")
    \/ MainMoreReturn(HistoryPage, TRUE) /\ Remembers("-")
    \/ MainRemote /\ Remembers("-")
    \/ MainRemoteReturn /\ Remembers("-")

SpecBegin == Init /\ [][NextBegin]_vars

\* The commands the user types, one key after the other, possibly corrected
\* with Backspace: `q`, `quit`, `join x`, and what lies on the way to them.
TypesCommand(c) ==
    /\ command_byte_pos = Len(command)
    /\ \E script \in {Cmd_q, Cmd_quit, JoinScript} : HasPrefix(script, command \o c)
    /\ CommandKey(c)

\* The command prompt: typing, Enter and Backspace, and main serving the
\* intents.  Enter and Backspace record the prompt and the state they met.
NextCommand ==
    \/ LoadGuilds(<<1>>) /\ Untagged
    \/ NormalColon /\ Untagged
    \/ CommandEsc /\ Untagged
    \/ CommandLeft /\ Untagged
    \/ \E c \in {<<JoinScript[i]>> : i \in 1..Len(JoinScript)} \cup
                 {<<Cmd_quit[i]>> : i \in 1..Len(Cmd_quit)} :
          TypesCommand(c) /\ Untagged
    \/ CommandEnter /\ Did(<<"CommandEnter", command, Store, queue, RUNNING>>)
    \/ CommandBackspace /\ Did(<<"CommandBackspace", command>>)
    \/ UiResume /\ Untagged
    \/ MainRecv /\ Untagged
    \/ MainQuit /\ Untagged
    \/ MainJoinGuild /\ Untagged
    \/ \E found \in BOOLEAN : MainJoinReturn(2, found) /\ Untagged

SpecCommand == Init /\ [][NextCommand]_vars

\* Channel selection: with no guild current, with the guild's channels not
\* yet fetched, fetched once or twice, with the channel's history loaded or
\* not.  The ChannelSelect keys record the store and the queue they met.
NextChannel ==
    \/ LoadGuilds(<<1>>) /\ Untagged
    \/ NormalG /\ Untagged
    \/ NormalC /\ Untagged
    \/ GuildEsc /\ Untagged
    \/ GuildDown /\ Untagged
    \/ GuildEnter /\ Untagged
    \/ ChannelEsc /\ Untagged
    \/ ChannelDown /\ Did(<<"ChannelDown", Store, queue>>)
    \/ ChannelUp /\ Did(<<"ChannelUp", Store, queue>>)
    \/ ChannelEnter /\ Did(<<"ChannelEnter", Store, queue>>)
    \/ UiResume /\ Untagged
    \/ MainRecv /\ Untagged
    \/ MainGetChannels /\ Untagged
    \/ \E cs \in DistinctSeqs(ChannelIds) : MainChannelsReturn(cs) /\ Untagged
    \/ MainGetMore /\ Untagged
    \/ MainMoreReturn(HistoryPage, TRUE) /\ Untagged

SpecChannel == Init /\ [][NextChannel]_vars

\* The history variable after a step of the negotiator.
Negotiates(op) == last' = op /\ UNCHANGED termVars

\* The negotiator: the server's steps are shown, the user moves, types,
\* submits, goes back and quits, the server answers each request, and main
\* goes on after auth() has returned.
NextNegotiate ==
    \/ \E step \in AuthSteps \cup {NoStep} :
          AuthFirstStep(step) /\ Negotiates(<<"-">>)
    \/ AuthHead /\ Negotiates(<<"AuthHead", auth_task.step, auth_state>>)
    \/ AuthRecv /\ Negotiates(<<"AuthRecv">>)
    \/ \E ok \in BOOLEAN, step \in AuthSteps \cup {NoStep} :
          AuthPrevReturn(ok, step) /\ Negotiates(<<"AuthPrevReturn", ok, auth_state>>)
    \/ \E response \in {"Some", "None", "Err"}, step \in AuthSteps \cup {NoStep} :
          AuthNextReturn(response, step) /\ Negotiates(<<"AuthNextReturn", response>>)
    \/ \E data_dir \in BOOLEAN : MainAfterAuth(data_dir) /\ Negotiates(<<"-">>)
    \/ AuthBack /\ Negotiates(<<"AuthBack", auth_state>>)
    \/ AuthQuit /\ Negotiates(<<"AuthQuit">>)
    \/ ChoiceDown /\ Negotiates(<<"-">>)
    \/ ChoiceUp /\ Negotiates(<<"-">>)
    \/ ChoiceEnter /\ Negotiates(<<"ChoiceEnter", auth_state, auth_queue>>)
    \/ FormEsc /\ Negotiates(<<"-">>)
    \/ \E key \in {"Tab", "j"} : FormDown(key) /\ Negotiates(<<"-">>)
    \/ \E key \in {"BackTab", "k"} : FormUp(key) /\ Negotiates(<<"-">>)
    \/ FormI /\ Negotiates(<<"-">>)
    \/ \E c \in {97, 49} : FormChar(c) /\ Negotiates(<<"-">>)
    \/ FormBackspace /\ Negotiates(<<"-">>)
    \/ FormEnter /\ Negotiates(<<"FormEnter", auth_state, auth_queue>>)

SpecNegotiate == Init /\ [][NextNegotiate]_vars

\* Forms alone: the server sends one form after the other, the user fills
\* them in and submits.  Enter records the negotiator state and queue it met.
FormSteps == [kind : {"Form"}, can_go_back : {FALSE}, fields : FieldLists]

NextForm ==
    \/ \E step \in FormSteps : AuthFirstStep(step) /\ Negotiates(<<"-">>)
    \/ AuthHead /\ Negotiates(<<"-">>)
    \/ AuthRecv /\ Negotiates(<<"-">>)
    \/ \E response \in {"Some", "None", "Err"}, step \in FormSteps :
          AuthNextReturn(response, step) /\ Negotiates(<<"-">>)
    \/ FormEsc /\ Negotiates(<<"-">>)
    \/ \E key \in {"Tab", "j"} : FormDown(key) /\ Negotiates(<<"-">>)
    \/ \E key \in {"BackTab", "k"} : FormUp(key) /\ Negotiates(<<"-">>)
    \/ FormI /\ Negotiates(<<"-">>)
    \/ \E c \in {97, 49} : FormChar(c) /\ Negotiates(<<"-">>)
    \/ FormBackspace /\ Negotiates(<<"-">>)
    \/ FormEnter /\ Negotiates(<<"FormEnter", auth_state, auth_queue>>)

SpecForm == Init /\ [][NextForm]_vars

\* Going back: the server's steps are shown, the user asks to go back or
\* quits, prev_auth_step succeeds or fails.
NextBack ==
    \/ \E step \in AuthSteps \cup {NoStep} : AuthFirstStep(step) /\ Negotiates(<<"-">>)
    \/ AuthHead /\ Negotiates(<<"AuthHead", auth_task.step, last[1]>>)
    \/ AuthRecv /\ Negotiates(<<"-">>)
    \/ \E ok \in BOOLEAN, step \in AuthSteps \cup {NoStep} :
          AuthPrevReturn(ok, step) /\ Negotiates(<<"AuthPrevReturn", ok>>)
    \/ AuthBack /\ Negotiates(<<"-">>)
    \/ AuthQuit /\ Negotiates(<<"-">>)
    \/ \E data_dir \in BOOLEAN : MainAfterAuth(data_dir) /\ Negotiates(<<"-">>)

SpecBack == Init /\ [][NextBack]_vars

\* ----------------------------------------------------------------- claims
\* The byte offset of the character with index n (0-based) of s, Len(s) for
\* n = NumChars(s): the total encoded width of the first n characters.
WidthOfFirst(s, n) ==
    IF n = NumChars(s) THEN Len(s)
    ELSE (CHOOSE i \in 1..Len(s) :
            /\ ~IsContinuation(s[i])
            /\ Cardinality({j \in 1..(i - 1) : ~IsContinuation(s[j])}) = n) - 1

BufferOk(s, bp, cp) ==
    /\ bp \in 0..Len(s)
    /\ is_char_boundary(s, bp)
    /\ cp \in 0..NumChars(s)
    /\ bp = WidthOfFirst(s, cp)

\* C1: under every sequence of move-left, move-right, insert and backspace on
\* the message buffer and on the command buffer, starting empty, the byte
\* offset lies in [0, byte length], is a character boundary, and equals the
\* encoded width of the first char-offset characters (and no operation
\* panics).
C1_BufferOffsets ==
    /\ BufferOk(input, input_byte_pos, input_char_pos)
    /\ BufferOk(command, command_byte_pos, command_char_pos)
    /\ "ui" \notin panicked

\* C1 witness: the cursor sits between two multi-byte characters of the
\* message buffer after an insert and a move left, and the command buffer
\* holds a multi-byte character too.
C1_Witness ==
    /\ Len(input) > NumChars(input) + 1
    /\ input_char_pos = 1 /\ input_byte_pos >= 2 /\ input_byte_pos < Len(input)
    /\ Len(command) > NumChars(command)

\* C2: immediately after begin-edit (`e` in Scroll), after an edit cancel and
\* after an edit or send submit, the message buffer's byte offset is a
\* character boundary of its text and its character offset is the number of
\* characters before the byte offset.
C2_EditKeepsOffsets ==
    (/\ last \in {<<"ScrollE">>, <<"NormalEsc">>, <<"Enter">>}
     /\ ~ui_wait.waiting
     /\ "ui" \notin panicked)
    => BufferOk(input, input_byte_pos, input_char_pos)

\* C3: the guild selection index is absent or a position of the guild list.
C3_GuildSelectInRange ==
    guilds_select = None \/ guilds_select < Len(guilds_list)

\* The guild at the selection index, None without one.
SelectedGuild ==
    IF guilds_select # None /\ guilds_select < Len(guilds_list)
    THEN ListGet(guilds_list, guilds_select) ELSE None

\* C4: when GuildRemovedFromList(g) is applied and g is the current guild or
\* the guild at the selection index, then afterwards g is in neither the guild
\* list nor the guild map and both the current-guild pointer and the guild
\* selection index are absent.
C4_RemovedGuildCleared ==
    [][\A g \in GuildIds :
          (EvGuildRemoved(g) /\ (current_guild = g \/ SelectedGuild = g))
          => /\ g \notin Range(guilds_list')
             /\ g \notin DOMAIN guilds_map'
             /\ current_guild' = None
             /\ guilds_select' = None]_vars

\* C5: the current-guild pointer, if present, is a key of the guild map, and
\* each guild's current-channel pointer, if present, is a key of that guild's
\* channel map.
C5_CurrentPointersValid ==
    /\ current_guild # None => current_guild \in DOMAIN guilds_map
    /\ \A g \in DOMAIN guilds_map :
          guilds_map[g].current_channel # None
          => guilds_map[g].current_channel \in DOMAIN guilds_map[g].channels_map

NoDuplicates(l) == \A i, j \in 1..Len(l) : i # j => l[i] # l[j]

\* C6: in every channel the message list holds no id twice and holds exactly
\* the keys of the message map.
C6_ListMapAgree ==
    \A g \in DOMAIN guilds_map : \A c \in DOMAIN guilds_map[g].channels_map :
        LET ch == guilds_map[g].channels_map[c] IN
        /\ NoDuplicates(ch.messages_list)
        /\ Range(ch.messages_list) = DOMAIN ch.messages_map

\* C7: the guild list and every guild's channel list hold each id at most
\* once.
C7_NoDuplicateEntities ==
    /\ NoDuplicates(guilds_list)
    /\ \A g \in DOMAIN guilds_map : NoDuplicates(guilds_map[g].channels_list)

\* C8: for every channel with a non-empty message list the scroll offset is
\* strictly less than the length of the list.
C8_ScrollInRange ==
    \A g \in DOMAIN guilds_map : \A c \in DOMAIN guilds_map[g].channels_map :
        LET ch == guilds_map[g].channels_map[c] IN
        ch.messages_list # <<>> => ch.scroll_selected < Len(ch.messages_list)

\* C9: a DeletedMessage applied to a tracked channel does not panic and does
\* not increase the scroll offset, and afterwards the offset is strictly less
\* than the length of a non-empty list.
C9_DeleteClampsScroll ==
    [][\A g \in GuildIds, c \in ChannelIds, id \in MsgIds :
          (EvDeletedMessage(g, c, id) /\ HasChannel(guilds_map, g, c))
          => LET ch == guilds_map[g].channels_map[c]
                 after == guilds_map'[g].channels_map[c]
             IN  /\ panicked' = panicked
                 /\ after.scroll_selected <= ch.scroll_selected
                 /\ after.messages_list # <<>>
                    => after.scroll_selected < Len(after.messages_list)]_vars

\* C10: DeletedMessage(id) on a tracked channel that holds id removes id from
\* the message map and from exactly one position of the message list and
\* leaves every other message, the order of the remaining ids, every other
\* channel and the rest of the store as they were; for an id the channel does
\* not hold, or an untracked guild or channel, the whole store is unchanged.
C10_DeleteFrame ==
    last[1] = "DeletedMessage" =>
    LET g == last[2]
        c == last[3]
        id == last[4]
        pre == last[5]
    IN  IF Holds(pre.guilds_map, g, c, id)
        THEN LET ch == pre.guilds_map[g].channels_map[c]
                 after == guilds_map[g].channels_map[c]
             IN  /\ DOMAIN after.messages_map = (DOMAIN ch.messages_map) \ {id}
                 /\ \A k \in DOMAIN after.messages_map :
                       after.messages_map[k] = ch.messages_map[k]
                 /\ \E i \in 1..Len(ch.messages_list) :
                       /\ ch.messages_list[i] = id
                       /\ after.messages_list = ListRemove(ch.messages_list, i - 1)
                 /\ Store = [pre EXCEPT !.guilds_map = SetChannel(pre.guilds_map, g, c,
                                [ch EXCEPT !.messages_map = after.messages_map,
                                           !.messages_list = after.messages_list,
                                           !.scroll_selected = after.scroll_selected])]
        ELSE Store = pre

\* C10 witness: message 2 has just been deleted from the channel that held
\* 1, 2, 3; 1 and 3 remain, in order, in the list and in the map.
C10_Witness ==
    /\ last[1] = "DeletedMessage"
    /\ last[4] = 2
    /\ HasChannel(last[5].guilds_map, 1, 1)
    /\ last[5].guilds_map[1].channels_map[1].messages_list = <<1, 2, 3>>
    /\ guilds_map[1].channels_map[1].messages_list = <<1, 3>>
    /\ DOMAIN guilds_map[1].channels_map[1].messages_map = {1, 3}

\* C11: an EditedMessage for a message the resolved channel holds replaces its
\* text and sets its edit time, leaving its id, author, creation time,
\* username override and the message list as they were, and nothing else in
\* the store changes; for an unknown id, an untracked guild or channel, or an
\* event without new content, the store is unchanged.
C11_EditFrame ==
    last[1] = "EditedMessage" =>
    LET g == last[2]
        c == last[3]
        id == last[4]
        new_content == last[5]
        edited_at == last[6]
        pre == last[7]
    IN  IF /\ HasChannel(pre.guilds_map, g, c)
           /\ id \in DOMAIN pre.guilds_map[g].channels_map[c].messages_map
           /\ new_content # <<>>
        THEN LET old == pre.guilds_map[g].channels_map[c].messages_map[id]
                 new == guilds_map[g].channels_map[c].messages_map[id]
             IN  /\ new.content = new_content[1]
                 /\ new.edited_timestamp = <<edited_at>>
                 /\ new.id = old.id
                 /\ new.author_id = old.author_id
                 /\ new.timestamp = old.timestamp
                 /\ new.override_username = old.override_username
                 /\ guilds_map[g].channels_map[c].messages_list
                       = pre.guilds_map[g].channels_map[c].messages_list
                 /\ Store = [pre EXCEPT
                       !.guilds_map[g].channels_map[c].messages_map[id] = new]
        ELSE Store = pre

\* C11 witness: message 2, second of three and carrying a username override,
\* has just been edited in place.
C11_Witness ==
    /\ last[1] = "EditedMessage"
    /\ last[4] = 2
    /\ HasChannel(guilds_map, 1, 1)
    /\ guilds_map[1].channels_map[1].messages_list = <<1, 2, 3>>
    /\ guilds_map[1].channels_map[1].messages_map[2].content = Chr_3
    /\ guilds_map[1].channels_map[1].messages_map[2].edited_timestamp = <<99>>
    /\ last[7].guilds_map[1].channels_map[1].messages_map[2].content = Chr_q

\* C12: a SentMessage whose guild and channel do not resolve to a tracked
\* channel changes nothing in the store and enqueues no intent (nor leaves
\* the handler waiting to enqueue one).
C12_UntrackedSentNoop ==
    [][\A g \in GuildIds, c \in ChannelIds, id \in MsgIds :
          (EvSentMessage(g, c, id, ServerMessage(id)) /\ ~HasChannel(guilds_map, g, c))
          => UNCHANGED <<storeVars, queue, ev_task>>]_vars

CurrentList(st) ==
    IF /\ st.current_guild \in DOMAIN st.guilds_map
       /\ st.guilds_map[st.current_guild].current_channel
              \in DOMAIN st.guilds_map[st.current_guild].channels_map
    THEN st.guilds_map[st.current_guild].channels_map[
             st.guilds_map[st.current_guild].current_channel].messages_list
    ELSE <<>>

C15_PageSkipsBoundary ==
    (last[1] = "Page" /\ last[3] # <<>>) =>
       /\ last[3][1].id \in Range(CurrentList(last[4]))
       /\ \A j \in 2..Len(last[3]) : last[3][j].id \in Range(CurrentList(Store))

\* The intent has been handed to the queue by this step, or the key handler
\* is left waiting for room to hand it over.
Enqueues(e) ==
    \/ queue' = Append(queue, e) /\ ~ui_wait'.waiting
    \/ queue' = queue /\ ui_wait'.waiting /\ ui_wait'.ev = e

\* C16: in Scroll mode on a channel with n >= 1 messages, a scroll-up below
\* offset n - 1 only raises the offset by one; the scroll-up from n - 1 sets
\* the offset to n and enqueues one GetMoreMessages carrying the first id of
\* the list; a scroll-up at n or beyond changes nothing and enqueues nothing.
C16_ScrollUpFetchesOnce ==
    [][(ScrollUp /\ HasCurrentChannel /\ CurrentChannel.messages_list # <<>>) =>
         LET list == CurrentChannel.messages_list
             n == Len(list)
             offset == CurrentChannel.scroll_selected
             after == guilds_map'[current_guild].channels_map[CurrentChannelId]
         IN  /\ after.messages_list = list
             /\ IF offset < n - 1
                THEN /\ after.scroll_selected = offset + 1
                     /\ queue' = queue /\ ~ui_wait'.waiting
                ELSE IF offset = n - 1
                THEN /\ after.scroll_selected = n
                     /\ Enqueues([kind |-> "GetMoreMessages", message_id |-> list[1]])
                ELSE /\ after.scroll_selected = offset
                     /\ queue' = queue /\ ~ui_wait'.waiting]_vars

\* C17: `e` in Scroll mode.  With no current channel, no message at the
\* scroll-selected position or one of another author, the mode, the editing
\* flag, the message buffer and the saved buffer are unchanged.  On a message
\* of the current user the buffer becomes its text, the previous buffer and its
\* two offsets are saved, the flag is set and the mode is TextInsert.
C17_BeginEdit ==
    [][ScrollE =>
         LET own ==
               /\ HasCurrentChannel
               /\ LET list == CurrentChannel.messages_list
                      at == Len(list) - CurrentChannel.scroll_selected
                  IN  /\ at \in 1..Len(list)
                      /\ list[at] \in DOMAIN CurrentChannel.messages_map
                      /\ CurrentChannel.messages_map[list[at]].author_id = current_user
         IN  IF own
             THEN LET list == CurrentChannel.messages_list
                      at == Len(list) - CurrentChannel.scroll_selected
                  IN  /\ input' = CurrentChannel.messages_map[list[at]].content
                      /\ old_input' = input
                      /\ old_input_byte_pos' = input_byte_pos
                      /\ old_input_char_pos' = input_char_pos
                      /\ editing'
                      /\ mode' = "TextInsert"
             ELSE UNCHANGED <<mode, editing, input, old_input>>]_vars

\* An edit of the account's own message has just begun over a typed draft.
C17_Witness ==
    /\ last[1] = "ScrollE"
    /\ mode = "TextInsert" /\ editing
    /\ old_input = Chr_q /\ old_input_byte_pos = 1
    /\ input = TextOf(1)

\* C18: after an edit is cancelled (Esc in TextNormal while editing) the
\* message buffer and its two offsets are the draft held when the editing
\* flag was last clear, the flag is clear and the mode is Scroll.
C18_CancelRestoresDraft ==
    last[1] = "NormalEsc" =>
        /\ Draft = last[2]
        /\ ~editing
        /\ mode = "Scroll"

\* C19: every step that hands a Delete intent to the queue carries the id of
\* the message at the scroll-selected position of the current channel, written
\* by the current user; every key of the Delete prompt, `y` or not, returns
\* the mode to Scroll (at once, or when its suspended send completes).
C19_DeleteSelectedOwn ==
    [][/\ (Len(queue') > Len(queue) /\ queue'[Len(queue')].kind = "Delete") =>
            /\ HasCurrentChannel
            /\ LET list == CurrentChannel.messages_list
                   at == Len(list) - CurrentChannel.scroll_selected
               IN  /\ at \in 1..Len(list)
                   /\ list[at] = queue'[Len(queue')].message_id
                   /\ list[at] \in DOMAIN CurrentChannel.messages_map
                   /\ CurrentChannel.messages_map[list[at]].author_id = current_user
       /\ (\E y \in BOOLEAN : DeleteKey(y)) =>
            \/ mode' = "Scroll"
            \/ ui_wait'.waiting /\ ui_wait'.then = "Scroll"]_vars

\* The key handler has handed intent e to the queue the step met, or waits
\* for room to do so.
Sent(before, e) ==
    \/ queue = Append(before, e) /\ ~ui_wait.waiting
    \/ queue = before /\ ui_wait.waiting /\ ui_wait.ev = e

\* C20: after Enter in Command mode the mode is TextNormal and the store is
\* untouched; a prompt of exactly `q` or `quit` has sent Quit and cleared the
\* running flag, a prompt `join <invite>` has sent JoinGuild(<invite>), any
\* other prompt has sent nothing.  After Backspace the mode is TextNormal if
\* the prompt was empty and still Command if it was not.
C20_CommandEnter ==
    /\ last[1] = "CommandEnter" =>
          /\ mode = "TextNormal"
          /\ Store = last[3]
          /\ IF last[2] \in {Cmd_q, Cmd_quit}
             THEN Sent(last[4], [kind |-> "Quit"]) /\ ~RUNNING
             ELSE IF HasPrefix(last[2], Cmd_join)
             THEN /\ Sent(last[4], [kind |-> "JoinGuild",
                                     invite |-> SubSeq(last[2], Len(Cmd_join) + 1,
                                                       Len(last[2]))])
                  /\ RUNNING = last[5]
             ELSE /\ queue = last[4] /\ ~ui_wait.waiting
                  /\ RUNNING = last[5]
    /\ last[1] = "CommandBackspace" =>
          mode = IF last[2] = <<>> THEN "TextNormal" ELSE "Command"

\* Enter on the prompt `join x` has just sent JoinGuild("x").
C20_Witness ==
    /\ last[1] = "CommandEnter"
    /\ last[2] = JoinScript
    /\ queue # <<>> /\ queue[Len(queue)] = [kind |-> "JoinGuild", invite |-> <<120>>]

\* C21: Enter in TextNormal or TextInsert.  With no edit in progress the
\* message buffer is emptied, both offsets are zero and a Send intent with the
\* previous contents is enqueued.  With an edit in progress an Edit intent
\* with the buffer's contents is enqueued, the editing flag is cleared, and
\* (once the send has completed) the saved buffer and offsets are restored and
\* the mode is Scroll.
C21_EnterSubmits ==
    [][(NormalEnter \/ InsertEnter) =>
         IF ~editing
         THEN /\ input' = <<>>
              /\ input_byte_pos' = 0 /\ input_char_pos' = 0
              /\ Enqueues([kind |-> "Send", text |-> input])
         ELSE /\ \E id \in MsgIds :
                    Enqueues([kind |-> "Edit", message_id |-> id, text |-> input])
              /\ ~editing'
              /\ \/ ui_wait'.waiting /\ ui_wait'.then = "Scroll" /\ ui_wait'.restore
                 \/ /\ mode' = "Scroll"
                    /\ input' = old_input
                    /\ input_byte_pos' = old_input_byte_pos
                    /\ input_char_pos' = old_input_char_pos]_vars

\* C22: in GuildSelect, j and k move the selection by one inside
\* [0, guild count) without wrapping, from no selection to the first (j) or
\* last (k) guild, and leave it absent on an empty list.  Enter with a guild
\* selected makes the guild at the selection index current, enqueues
\* GetChannels exactly if that guild has no channels, and switches to
\* ChannelSelect.
C22_GuildSelectKeys ==
    [][LET n == Len(guilds_list)
           inside(sel) == sel = None \/ sel < n
       IN  /\ GuildDown =>
                /\ inside(guilds_select')
                /\ guilds_select' =
                      IF guilds_select = None THEN (IF n > 0 THEN 0 ELSE None)
                      ELSE IF guilds_select + 1 < n THEN guilds_select + 1
                      ELSE guilds_select
           /\ GuildUp =>
                /\ inside(guilds_select')
                /\ guilds_select' =
                      IF guilds_select = None THEN (IF n > 0 THEN n - 1 ELSE None)
                      ELSE IF guilds_select > 0 THEN guilds_select - 1
                      ELSE guilds_select
           /\ (GuildEnter /\ guilds_select # None) =>
                /\ guilds_select < n
                /\ current_guild' = guilds_list[guilds_select + 1]
                /\ current_guild' \in DOMAIN guilds_map
                /\ IF guilds_map[current_guild'].channels_list = <<>>
                   THEN Enqueues([kind |-> "GetChannels"])
                   ELSE queue' = queue /\ ~ui_wait'.waiting
                /\ \/ mode' = "ChannelSelect"
                   \/ ui_wait'.waiting /\ ui_wait'.then = "ChannelSelect"]_vars

\* C23: in ChannelSelect, j and k change nothing without a current guild and
\* otherwise move only the channel selection, by one, inside [0, length of the
\* current guild's channel list).  Enter with a channel selected makes the
\* channel at the selection index the guild's current channel, enqueues
\* GetMoreMessages without cursor exactly if that channel holds no message,
\* and switches to TextNormal.
C23_ChannelSelectKeys ==
    LET st == last[2]
        tracked == st.current_guild \in DOMAIN st.guilds_map
        before == st.guilds_map[st.current_guild]
        sel == before.channels_select
        n == Len(before.channels_list)
        moved(to) ==
            /\ to = None \/ to < n
            /\ guilds_map[current_guild].channels_select = to
            /\ Store = [st EXCEPT !.guilds_map[st.current_guild].channels_select = to]
            /\ queue = last[3] /\ ~ui_wait.waiting /\ mode = "ChannelSelect"
    IN  /\ (last[1] \in {"ChannelDown", "ChannelUp", "ChannelEnter"} /\ ~tracked) =>
              Store = st /\ queue = last[3] /\ mode = "ChannelSelect"
        /\ (last[1] = "ChannelDown" /\ tracked) =>
              moved(IF sel = None THEN (IF n > 0 THEN 0 ELSE None)
                    ELSE IF sel + 1 < n THEN sel + 1 ELSE sel)
        /\ (last[1] = "ChannelUp" /\ tracked) =>
              moved(IF sel = None THEN (IF n > 0 THEN n - 1 ELSE None)
                    ELSE IF sel > 0 THEN sel - 1 ELSE sel)
        /\ (last[1] = "ChannelEnter" /\ tracked /\ sel # None) =>
              /\ sel < n
              /\ Store = [st EXCEPT !.guilds_map[st.current_guild].current_channel =
                                        before.channels_list[sel + 1]]
              /\ IF before.channels_map[before.channels_list[sel + 1]].messages_list = <<>>
                 THEN Sent(last[3], [kind |-> "GetMoreMessages", message_id |-> None])
                 ELSE queue = last[3] /\ ~ui_wait.waiting
              /\ \/ mode = "TextNormal"
                 \/ ui_wait.waiting /\ ui_wait.then = "TextNormal"

\* Enter has just opened the second entry of the channel list and asked for
\* its first page.
C23_Witness ==
    /\ last[1] = "ChannelEnter"
    /\ 1 \in DOMAIN last[2].guilds_map
    /\ last[2].guilds_map[1].channels_select = 1
    /\ guilds_map[1].current_channel = 1
    /\ mode = "TextNormal"
    /\ queue = <<[kind |-> "GetMoreMessages", message_id |-> None]>>

\* Some new-password field of the form differs from its confirmation.
Mismatched(in) ==
    \E i \in 1..Len(in.fields) :
        /\ in.fields[i].type = "new-password"
        /\ in.fields[i].input2 # <<(in.fields[i].input)>>

\* Some number field of the form does not hold a number.
NotANumber(in) ==
    \E i \in 1..Len(in.fields) :
        /\ in.fields[i].type = "number"
        /\ \/ in.fields[i].input = <<>>
           \/ \E j \in 1..Len(in.fields[i].input) : in.fields[i].input[j] \notin 48..57

\* C24: Enter on a form in which a new-password field differs from its
\* confirmation places nothing on the negotiator's request queue.
C24_MismatchNotSent ==
    (last[1] = "FormEnter" /\ Mismatched(last[2].input)) => auth_queue = last[3]

\* Enter has just been pressed on a form with a typed new password and an
\* empty confirmation.
C24_Witness ==
    /\ last[1] = "FormEnter"
    /\ Mismatched(last[2].input)
    /\ \A i \in 1..Len(last[2].input.fields) :
          last[2].input.fields[i].type = "number" => last[2].input.fields[i].input = <<49>>

\* C25: a locally rejected submission (a new-password field not matching its
\* confirmation, or a number field not holding a number) raises no fault and
\* changes nothing: the negotiator state is as before and the key task is
\* still running.
C25_RejectedIsNoop ==
    (last[1] = "FormEnter" /\ (Mismatched(last[2].input) \/ NotANumber(last[2].input))) =>
        /\ auth_state = last[2]
        /\ auth_queue = last[3]
        /\ "auth_ui" \notin panicked
        /\ auth_keys = "running"

\* C26: a go-back request is put on the queue only in a state whose
\* can_go_back is true; a failed prev_auth_step leaves the negotiator state
\* unchanged and the loop waiting for the next request; a returned Choice,
\* Form or Waiting step, once shown, replaces the state: its can_go_back, its
\* kind, and a fresh selection over its options or fields.
C26_GoBack ==
    [][/\ (Len(auth_queue') > Len(auth_queue)
           /\ auth_queue'[Len(auth_queue')].kind = "Initial") => auth_state.can_go_back
       /\ (\E step \in AuthSteps \cup {NoStep} : AuthPrevReturn(FALSE, step)) =>
             /\ auth_state' = auth_state
             /\ auth_task'.pc = "recv"
       /\ (\E step \in AuthSteps \cup {NoStep} : AuthPrevReturn(TRUE, step)) =>
             /\ auth_state' = auth_state
             /\ auth_task'.pc = "head"
       /\ (AuthHead /\ RUNNING /\ auth_task.step.kind \in {"Choice", "Form", "Waiting"}) =>
             LET step == auth_task.step
                 in == auth_state'.input
             IN  /\ auth_state'.can_go_back = step.can_go_back
                 /\ in.kind = step.kind
                 /\ step.kind = "Choice" =>
                       Len(in.choices) = Len(step.options) /\ in.current_choice = None
                 /\ step.kind = "Form" =>
                       /\ Len(in.fields) = Len(step.fields)
                       /\ in.selected = None /\ ~in.editing
                       /\ \A i \in 1..Len(in.fields) : in.fields[i].input = <<>>]_vars

\* A step returned by a successful prev_auth_step has just replaced a state
\* that allowed going back.
C26_Witness ==
    /\ last[1] = "AuthHead" /\ last[3] = "AuthPrevReturn"
    /\ last[2].kind = "Choice" /\ ~last[2].can_go_back
    /\ auth_state = [can_go_back |-> FALSE, input |-> StepInput(last[2])]

\* C27: the negotiator loop ends with the running flag still set exactly
\* when next_auth_step has answered with the end of the steps; `q` can be
\* pressed in every negotiator state, and once the running flag is false the
\* session is never started.
C27_EndsOnlyAtEndOfSteps ==
    /\ (auth_task.pc \in {"ended", "session"} /\ RUNNING) => auth_task.session
    /\ auth_task.session => auth_task.pc \in {"ended", "returned", "session"}
    /\ AuthKeyReady => ENABLED AuthQuit
    /\ ~RUNNING => auth_task.pc # "session"

\* the option lists of the server that the negotiator shows as `shown`
SuppliedAs(shown) ==
    {opts \in OptionLists :
        /\ Len(opts) = Len(shown)
        /\ \A i \in 1..Len(opts) : Replace(opts[i], 45, 32) = shown[i]}

\* C28: Enter in a Choice sends, for every option list the server supplied
\* and every highlighted index, exactly the supplied option at that index;
\* with no option highlighted it sends nothing.
C28_ChoiceSentVerbatim ==
    last[1] = "ChoiceEnter" =>
        LET in == last[2].input IN
        IF in.current_choice = None
        THEN auth_queue = last[3]
        ELSE \A opts \in SuppliedAs(in.choices) :
                /\ in.current_choice < Len(opts)
                /\ auth_queue = Append(last[3],
                       [kind |-> "Choice", choice |-> opts[in.current_choice + 1]])

\* C29: no key press faults: the key-handling task is never ended by a panic
\* (an index or arithmetic underflow, an out-of-range access), whatever the
\* message list and the scroll offset of the current channel are.
C29_NoKeyFaults == "ui" \notin panicked

\* The command processor has taken an intent off the queue and its arm starts
\* with `state.read().await` or `state.write().await`, which the lock held by
\* the suspended key handler does not grant.
MainWaitsForLock ==
    /\ main.pc = "dispatch" /\ "main" \notin panicked
    /\ \/ main.ev.kind \in {"Send", "Delete", "Edit", "GetMoreMessages"} /\ ~MainCanRead
       \/ main.ev.kind = "GetChannels" /\ ~MainCanWrite

\* C30: with the intent queue full, the key-handling task never waits in
\* tx.send holding the state lock while the command processor, the only
\* consumer of the queue, waits for that lock.
C30_NoQueueLockDeadlock ==
    ~(ui_wait.waiting /\ Len(queue) = QueueCap /\ MainWaitsForLock)

\* ------------------------------------------------- terminal and shutdown
\* What the render loop leaves alone.
TermOnly ==
    UNCHANGED <<mode, storeVars, editing, inputVars, oldInputVars, commandVars, RUNNING,
                queue, taskVars, ui_wait, panicked, overflow_checks, authVars>>

\* A write guard is alive: of the key handler suspended in tx.send, or of
\* main across the GetGuildChannelsRequest.
WriterHoldsLock ==
    \/ ui_wait.waiting /\ ui_wait.lock = "write"
    \/ main.pc = "channels_call"

\* tui(): Terminal::new, enable_raw_mode, terminal.clear.
TuiStart ==
    /\ ProcessAlive /\ tui_task.pc = "start"
    /\ raw_mode' = TRUE
    /\ tui_task' = [pc |-> "head", reading |-> FALSE]
    /\ TermOnly

\* `while RUNNING { let state = state.read().await; terminal.draw(..)?;`
\* then the frame's sleep begins; `state` lives to the end of the loop body.
TuiDraw ==
    /\ ProcessAlive /\ tui_task.pc = "head"
    /\ RUNNING
    /\ ~WriterHoldsLock
    /\ tui_task' = [pc |-> "sleep", reading |-> TRUE]
    /\ UNCHANGED raw_mode
    /\ TermOnly

\* `sleep(20 ms).await` returns; the loop body ends and drops the guard.
TuiWake ==
    /\ ProcessAlive /\ tui_task.pc = "sleep"
    /\ tui_task' = [pc |-> "head", reading |-> FALSE]
    /\ UNCHANGED raw_mode
    /\ TermOnly

\* The loop finds RUNNING false: terminal.clear, disable_raw_mode, set_cursor.
TuiExit ==
    /\ ProcessAlive /\ tui_task.pc = "head"
    /\ ~RUNNING
    /\ raw_mode' = FALSE
    /\ tui_task' = [pc |-> "done", reading |-> FALSE]
    /\ TermOnly

\* A handler that begins with state.write().await waits for the frame's guard.
Writes(A) == tui_task.pc # "sleep" /\ A

\* `.unwrap()` of a remote call's Err in main: the panic leaves main().
MainCallFails ==
    /\ main.pc \in {"more_call", "channels_call", "user_call", "join_call", "remote_call"}
    /\ "main" \notin panicked
    /\ panicked' = panicked \cup {"main"}
    /\ UNCHANGED <<mode, storeVars, editing, inputVars, oldInputVars, commandVars, RUNNING,
                   queue, taskVars, ui_wait, overflow_checks>>

\* ClientEvent::Quit: break, the offline status call and its unwrap, clear()
\* (disable_raw_mode), process::exit(0).
MainShutdown(ok) ==
    IF ok
    THEN MainQuit /\ raw_mode' = FALSE /\ UNCHANGED tui_task
    ELSE /\ Dispatching("Quit")
         /\ panicked' = panicked \cup {"main"}
         /\ UNCHANGED <<mode, storeVars, editing, inputVars, oldInputVars, commandVars,
                        RUNNING, queue, taskVars, ui_wait, overflow_checks, termVars>>

\* main() is over: process::exit, or a panic that unwinds out of main.
ProcessEnded == main.pc = "exited" \/ "main" \in panicked

Shuts(op) == last' = op /\ UNCHANGED authVars

\* The session from its start to its end: the render loop, `:q`, a guild
\* opened (GetChannels), an inbound message, remote calls that may fail.
NextShutdown ==
    \/ Writes(LoadGuilds(<<1>>)) /\ Untagged
    \/ TuiStart /\ Shuts(<<"-">>)
    \/ TuiDraw /\ Shuts(<<"-">>)
    \/ TuiWake /\ Shuts(<<"-">>)
    \/ TuiExit /\ Shuts(<<"-">>)
    \/ Writes(NormalG) /\ Untagged
    \/ Writes(GuildDown) /\ Untagged
    \/ Writes(GuildEnter) /\ Untagged
    \/ Writes(NormalColon) /\ Untagged
    \/ \E c \in {<<Cmd_q[i]>> : i \in 1..Len(Cmd_q)} :
          Writes(TypesCommand(c)) /\ Untagged
    \/ Writes(CommandEnter) /\ Did(<<"CommandEnter", queue>>)
    \/ UiResume /\ Untagged
    \/ MainRecv /\ Did(<<"MainRecv", queue>>)
    \/ Writes(MainGetChannels) /\ Untagged
    \/ \E ok \in BOOLEAN :
          \/ ok /\ Writes(MainChannelsReturn(<<1>>)) /\ Untagged
          \/ ~ok /\ MainCallFails /\ Did(<<"MainCallFails">>)
    \/ \E ok \in BOOLEAN : MainShutdown(ok) /\ Shuts(<<"MainShutdown", ok>>)
    \/ Writes(EvSentMessage(1, 1, 1, ServerMessage(1))) /\ Did(<<"EvSentMessage">>)
    \/ EvResume /\ Untagged
    \/ EvStop /\ Did(<<"EvStop">>)

SpecShutdown == Init /\ [][NextShutdown]_vars

\* C31: whenever the process has ended after raw mode was enabled, the
\* terminal is out of raw mode, also when a remote call has failed.
C31_TerminalRestored == ProcessEnded => ~raw_mode

\* The keys of a session that is shut down: a guild opened, `:q` Enter.  The
\* key loop does not read RUNNING, so keys go on after `:q`.
QuitKeys ==
    \/ Writes(NormalG) /\ Untagged
    \/ Writes(GuildDown) /\ Untagged
    \/ Writes(GuildEnter) /\ Did(<<"GuildEnter", queue>>)
    \/ Writes(NormalColon) /\ Untagged
    \/ \E c \in {<<Cmd_q[i]>> : i \in 1..Len(Cmd_q)} :
          Writes(TypesCommand(c)) /\ Untagged
    \/ Writes(CommandEnter) /\ Did(<<"CommandEnter", queue>>)

\* main with every remote call returning Ok.
QuitMain ==
    \/ Writes(LoadGuilds(<<1>>)) /\ Untagged
    \/ MainRecv /\ Did(<<"MainRecv", queue>>)
    \/ Writes(MainGetChannels) /\ Untagged
    \/ Writes(MainChannelsReturn(<<1>>)) /\ Untagged
    \/ MainGetUser /\ Untagged
    \/ MainUserReturn(FALSE) /\ Untagged
    \/ MainShutdown(TRUE) /\ Shuts(<<"MainShutdown", TRUE>>)

\* A suspended tx.send of the key handler or of the event handler completes.
QuitResume ==
    \/ UiResume /\ Untagged
    \/ EvResume /\ Untagged

\* The render loop.
QuitTui ==
    \/ TuiStart /\ Shuts(<<"-">>)
    \/ TuiDraw /\ Shuts(<<"-">>)
    \/ TuiWake /\ Shuts(<<"-">>)
    \/ TuiExit /\ Shuts(<<"-">>)

\* Inbound events.
QuitEvents ==
    \/ Writes(EvSentMessage(1, 1, 1, ServerMessage(1))) /\ Did(<<"EvSentMessage", RUNNING>>)
    \/ EvStop /\ Did(<<"EvStop">>)

NextQuit == QuitKeys \/ QuitMain \/ QuitResume \/ QuitTui \/ QuitEvents

\* Every task that can run does run: main, the suspended sends, the render
\* loop.  Keys and inbound events arrive or not.
SpecQuit ==
    /\ Init /\ [][NextQuit]_vars
    /\ WF_vars(QuitMain) /\ WF_vars(QuitResume) /\ WF_vars(QuitTui)

QuitQueued == \E i \in 1..Len(queue) : queue[i].kind = "Quit"

\* C32: once `:q` has cleared the running flag and Quit is on the queue, and
\* every remote call returns, the command processor eventually takes Quit
\* and leaves its loop (the process exits).
C32_QuitCompletes == (~RUNNING /\ QuitQueued) ~> (main.pc = "exited")

\* main awaits the answer of a remote call.
MainCallInFlight ==
    main.pc \in {"more_call", "channels_call", "user_call", "join_call", "remote_call"}

\* The guard of `let mut state = state.write().await` is alive in main: the
\* GetChannels arm takes it before the call and keeps it to the arm's end.
MainWriteGuard == main.pc = "channels_call"

\* C33: while a remote call of the command processor is in flight, main
\* does not hold the write lock of the shared state.
C33_NoWriteLockAcrossCall == MainCallInFlight => ~MainWriteGuard

\* C34: during the render-cadence sleep the render loop holds no read guard
\* of the shared state.
C34_NoReadGuardAcrossSleep == tui_task.pc = "sleep" => ~tui_task.reading

\* ------------------------------------------------------ discarded events
\* The stream events whose match arm is `=> {}`: the chat events other than
\* GuildRemovedFromList, SentMessage, EditedMessage, DeletedMessage, and
\* chat::Event::Emote.
OtherEventKinds ==
    {"GuildAddedToList", "ActionPerformed", "CreatedChannel", "EditedChannel",
     "DeletedChannel", "EditedGuild", "DeletedGuild", "JoinedMember", "LeftMember",
     "Typing", "RoleCreated", "RoleDeleted", "RoleMoved", "RoleUpdated",
     "RolePermsUpdated", "UserRolesUpdated", "PermissionUpdated", "ChannelsReordered",
     "EditedChannelPosition", "MessagePinned", "MessageUnpinned", "ReactionUpdated",
     "OwnerAdded", "OwnerRemoved", "InviteReceived", "InviteRejected", "Emote"}

\* The whole AppState.
AppStateNow == <<mode, Store, editing, inputVars, oldInputVars, commandVars>>

EvDiscardedMutant(kind) ==
    IF kind = "DeletedGuild" THEN EvGuildRemoved(1)
    ELSE /\ ProcessAlive /\ "events" \notin panicked /\ ev_task.pc = "idle"
         /\ ev_task' = [pc |-> "stopped"]
         /\ UNCHANGED <<mode, storeVars, editing, inputVars, oldInputVars, commandVars,
                        RUNNING, queue, main, subscribed, ui_wait, panicked,
                        overflow_checks>>

\* The handler with RUNNING set and an event of such a kind: no lock is
\* taken, the arm is empty, the handler returns Ok(false).
EvDiscarded(kind) ==
    /\ ProcessAlive /\ main.pc # "load"
    /\ "events" \notin panicked /\ ev_task.pc = "idle"
    /\ RUNNING
    /\ kind \in OtherEventKinds
    /\ UNCHANGED <<mode, storeVars, editing, inputVars, oldInputVars, commandVars,
                   RUNNING, queue, taskVars, ui_wait, panicked, overflow_checks>>

\* A guild opened and an inbound message in its channel, `:q`, and
\* inbound events of the other kinds in every state on the way.
NextDiscard ==
    \/ LoadGuilds(<<1>>) /\ Untagged
    \/ NormalG /\ Untagged
    \/ GuildDown /\ Untagged
    \/ GuildEnter /\ Untagged
    \/ UiResume /\ Untagged
    \/ MainRecv /\ Untagged
    \/ MainGetChannels /\ Untagged
    \/ MainChannelsReturn(<<1>>) /\ Untagged
    \/ MainGetUser /\ Untagged
    \/ MainUserReturn(TRUE) /\ Untagged
    \/ EvSentMessage(1, 1, 1, ServerMessage(1)) /\ Untagged
    \/ EvResume /\ Untagged
    \/ NormalColon /\ Untagged
    \/ \E c \in {<<Cmd_q[i]>> : i \in 1..Len(Cmd_q)} : TypesCommand(c) /\ Untagged
    \/ CommandEnter /\ Untagged
    \/ MainQuit /\ Untagged
    \/ EvStop /\ Untagged
    \/ \E kind \in OtherEventKinds :
          EvDiscarded(kind) /\ Did(<<"EvDiscarded", kind, AppStateNow, queue, RUNNING>>)

SpecDiscard == Init /\ [][NextDiscard]_vars

\* C35: an inbound event of a kind the client does not materialize, handled
\* while the running flag is set, leaves the whole shared state and the
\* intent queue as they were, and the handler returns stop = false: the
\* event task is neither stopped nor suspended.
C35_OtherEventsDiscarded ==
    last[1] = "EvDiscarded" =>
        /\ last[5]
        /\ AppStateNow = last[3]
        /\ queue = last[4]
        /\ ev_task = [pc |-> "idle"]
        /\ "events" \notin panicked

C35_Witness ==
    /\ last[1] = "EvDiscarded" /\ last[2] = "DeletedGuild"
    /\ HasChannel(guilds_map, 1, 1)
    /\ guilds_map[1].channels_map[1].messages_list # <<>>

\* ------------------------------------------------------ the edited message
\* History of an edit: the id of the message whose text `e` loaded, kept
\* while `editing` is set, and handed to the step that submits.
TracksEdit(op) ==
    /\ last' = IF ~editing /\ editing'
               THEN <<"editing", CurrentChannel.messages_list[
                                     SelectedIndex(CurrentChannel) + 1]>>
               ELSE IF editing /\ editing' THEN last
               ELSE IF editing /\ op = "Enter" THEN <<"submitted", last[2], queue>>
               ELSE <<"-">>
    /\ UNCHANGED <<authVars, termVars>>

\* Begin-edit, the keys that leave and re-enter Scroll and move the
\* selection, the submitting Enter, and messages arriving in the channel.
NextTarget ==
    \/ LoadGuilds(<<1>>) /\ TracksEdit("-")
    \/ NormalG /\ TracksEdit("-")
    \/ GuildDown /\ TracksEdit("-")
    \/ GuildEnter /\ TracksEdit("-")
    \/ ChannelDown /\ TracksEdit("-")
    \/ ChannelEnter /\ TracksEdit("-")
    \/ NormalS /\ TracksEdit("-")
    \/ ScrollUp /\ TracksEdit("-")
    \/ ScrollDown /\ TracksEdit("-")
    \/ ScrollEsc /\ TracksEdit("-")
    \/ ScrollE /\ TracksEdit("ScrollE")
    \/ InsertEsc /\ TracksEdit("-")
    \/ NormalEnter /\ TracksEdit("Enter")
    \/ InsertEnter /\ TracksEdit("Enter")
    \/ UiResume /\ TracksEdit("-")
    \/ MainRecv /\ TracksEdit("-")
    \/ MainGetChannels /\ TracksEdit("-")
    \/ MainChannelsReturn(<<1>>) /\ TracksEdit("-")
    \/ MainGetMore /\ TracksEdit("-")
    \/ MainMoreReturn(<<>>, TRUE) /\ TracksEdit("-")
    \/ \E id \in {1, 2} : EvSentMessage(1, 1, id, ServerMessage(id)) /\ TracksEdit("-")
    \/ EvResume /\ TracksEdit("-")
    \/ MainGetUser /\ TracksEdit("-")
    \/ MainUserReturn(TRUE) /\ TracksEdit("-")

SpecTarget == Init /\ [][NextTarget]_vars

\* The intents the submitting step has sent or is suspended sending.
Submitted ==
    IF ui_wait.waiting THEN <<ui_wait.ev>>
    ELSE SubSeq(queue, Len(last[3]) + 1, Len(queue))

\* C36: the Edit intent of a submitting Enter carries the id of the message
\* whose text was loaded when the edit began.
C36_EditTargetsLoadedMessage ==
    last[1] = "submitted" =>
        \A i \in 1..Len(Submitted) :
            Submitted[i].kind = "Edit" => Submitted[i].message_id = last[2]

\* Two guilds with one channel each; the user moves between them while main
\* serves the history requests.
NextPage ==
    \/ LoadGuilds(<<1, 2>>) /\ Untagged
    \/ NormalG /\ Untagged
    \/ GuildDown /\ Untagged
    \/ GuildUp /\ Untagged
    \/ GuildEnter /\ Untagged
    \/ ChannelDown /\ Untagged
    \/ ChannelEnter /\ Untagged
    \/ UiResume /\ Untagged
    \/ MainRecv /\ Untagged
    \/ MainGetChannels /\ Untagged
    \/ MainChannelsReturn(<<1>>) /\ Untagged
    \/ MainGetMore /\ Untagged
    \/ MainMoreReturn(HistoryPage, TRUE) /\ Untagged

SpecPage == Init /\ [][NextPage]_vars

\* C37: when the answer to a history request built for channel C is
\* applied, every channel other than C keeps its messages.
C37_PageSavedInRequestedChannel ==
    [][(main.pc = "more_call" /\ main'.pc = "recv") =>
          \A g \in DOMAIN guilds_map : \A c \in DOMAIN guilds_map[g].channels_map :
              <<g, c>> # <<main.guild_id, main.channel_id>> =>
                  guilds_map'[g].channels_map[c] = guilds_map[g].channels_map[c]]_vars

\* ------------------------------------------------------- the sent message
\* History of one Send intent: the guild and channel that were current at
\* the Enter that sent it, kept until main dispatches it.
TracksSend(op) ==
    /\ last' = IF op = "Enter" /\ (queue' # queue \/ ui_wait'.waiting)
               THEN <<"sent", current_guild,
                      IF HasCurrentGuild THEN guilds_map[current_guild].current_channel
                      ELSE None>>
               ELSE IF op = "MainRemote"
               THEN (IF main'.pc = "remote_call"
                     THEN <<"dispatched", last[2], last[3]>> ELSE <<"dropped">>)
               ELSE IF last[1] = "sent" THEN last
               ELSE <<"-">>
    /\ UNCHANGED <<authVars, termVars>>

\* Two guilds with one channel each; the user types and sends one message
\* at a time and moves between the guilds; main serves the intents.
NextSend ==
    \/ LoadGuilds(<<1, 2>>) /\ TracksSend("-")
    \/ NormalG /\ TracksSend("-")
    \/ GuildDown /\ TracksSend("-")
    \/ GuildUp /\ TracksSend("-")
    \/ GuildEnter /\ TracksSend("-")
    \/ ChannelDown /\ TracksSend("-")
    \/ ChannelEnter /\ TracksSend("-")
    \/ NormalI /\ TracksSend("-")
    \/ InsertEsc /\ TracksSend("-")
    \/ TypesDraft(Chr_q) /\ TracksSend("-")
    \/ last[1] # "sent" /\ NormalEnter /\ TracksSend("Enter")
    \/ last[1] # "sent" /\ InsertEnter /\ TracksSend("Enter")
    \/ UiResume /\ TracksSend("-")
    \/ MainRecv /\ TracksSend("-")
    \/ MainGetChannels /\ TracksSend("-")
    \/ MainChannelsReturn(<<1>>) /\ TracksSend("-")
    \/ MainGetMore /\ TracksSend("-")
    \/ MainMoreReturn(<<>>, TRUE) /\ TracksSend("-")
    \/ MainRemote /\ TracksSend("MainRemote")
    \/ MainRemoteReturn /\ TracksSend("-")

SpecSend == Init /\ [][NextSend]_vars

\* C38: a Send intent is dispatched to the guild and channel that were
\* current when Enter was pressed.
C38_SendGoesToChannelAtEnter ==
    last[1] = "dispatched" =>
        <<main.guild_id, main.channel_id>> = <<last[2], last[3]>>

\* C39: in every Form state of the negotiator the second buffer is not
\* selected and the confirmation buffer of every new-password field is the
\* empty string, so a new-password field with a value differs from its
\* confirmation.
C39_ConfirmationNeverTyped ==
    auth_state.input.kind = "Form" =>
        /\ ~auth_state.input.selected_second
        /\ \A i \in 1..Len(auth_state.input.fields) :
              LET f == auth_state.input.fields[i] IN
              f.type = "new-password" =>
                  /\ f.input2 = <<(<<>>)>>
                  /\ f.input # <<>> => f.input2 # <<f.input>>

C39_Witness ==
    /\ auth_state.input.kind = "Form"
    /\ \E i \in 1..Len(auth_state.input.fields) :
          /\ auth_state.input.fields[i].type = "new-password"
          /\ auth_state.input.fields[i].input # <<>>
          /\ auth_state.input.selected = i - 1

\* C40: Enter in GuildSelect with no guild selected leaves current_guild and
\* the mode as they were; Enter in ChannelSelect with no channel selected
\* leaves the current guild's current_channel and the mode as they were.
C40_EnterWithoutSelection ==
    [][/\ (guilds_select = None /\ GuildEnter) =>
             (current_guild' = current_guild /\ mode' = mode)
       /\ (HasCurrentGuild /\ guilds_map[current_guild].channels_select = None
             /\ ChannelEnter) =>
             (guilds_map'[current_guild].current_channel
                  = guilds_map[current_guild].current_channel /\ mode' = mode)]_vars
====
